---- MODULE Spec2Model ----
(***************************************************************************)
(* Verification model of the mini-blockchain repository: the Merkle-       *)
(* Patricia trie (src/trie), the RLP stream it encodes nodes with          *)
(* (src/rlp) and the EVM interpreter (src/ethvm).                          *)
(***************************************************************************)
EXTENDS Integers, Sequences, FiniteSets, TLC

(***************************************************************************)
(* Bounds of the model and the inputs the operations are driven with.      *)
(***************************************************************************)
MaxOps == 4

\* User keys: 0x11 / 0x12 diverge at the low nibble, 0x11 / 0x21 at the high
\* nibble, and <<0x11>> is a proper prefix of <<0x11, 0x11>> and <<0x11, 0x12>>.
KeySeq == << <<17>>, <<18>>, <<33>>, <<17, 17>>, <<17, 18>> >>
Keys == { KeySeq[i] : i \in 1..Len(KeySeq) }

\* Keys no operation is called with.
OtherKeys == { <<1>>, <<17, 17, 17>>, <<34, 17>> }

\* A key that is deleted and never stored: 0x13 leaves the Full node of 0x11
\* and 0x12 through an empty slot.
AbsentKeys == { <<19>> }

\* A value long enough for the node that holds it to be encoded in 32 bytes
\* or more.
LongValue == [i \in 1..32 |-> 3]

\* Values handed to try_update; the empty value makes try_update delete.
Values == { <<>>, <<1>>, <<2>>, LongValue }

\* hex_to_compact is applied to the sequences of at most MaxNibbles nibbles
\* out of 0, 1 and 15, with and without the terminator.
MaxNibbles == 3
Nibbles == { 0, 1, 15 }
NibbleSeqs ==
    LET plain == UNION { [1..n -> Nibbles] : n \in 0..MaxNibbles }
    IN plain \cup { Append(h, 16) : h \in plain }

\* The discovery service meets the nodes 1 to NodeCount.  AddNode requests
\* come for the nodes 1 to BUCKET_SIZE + 1 in their order, each while fewer
\* than MaxPinging pings are pending; there are at most MaxRounds rounds,
\* MaxFinds FindNode requests and MaxTicks ticks of TickMillis milliseconds.
NodeCount == 18
MaxPinging == 1
MaxRounds == 1
MaxFinds == 1
MaxReplies == 1
MaxTicks == 1
TickMillis == 2500
FreeAdds == 1

\* The interpreter runs every code of at most MaxCodeLen bytes over CodeBytes
\* (STOP, ADD, JUMP, JUMPI, JUMPDEST, PUSH1) and the codes of ExtraCodes.
MaxCodeLen == 5
CodeBytes == { 0, 1, 86, 87, 91, 96 }
ExtraCodes ==
    { <<91, 96, 1, 96, 0, 87>>,          \* JUMPDEST; PUSH1 1; PUSH1 0; JUMPI
      <<96, 3, 86, 0>>,                  \* PUSH1 3; JUMP; STOP
      <<96, 1, 96, 5, 87, 91, 0>>,       \* PUSH1 1; PUSH1 5; JUMPI; JUMPDEST; STOP
      <<96, 1, 96, 12, 87>>,             \* PUSH1 1; PUSH1 12; JUMPI, 12 no instruction
      <<96, 1, 96, 0, 82>>,              \* PUSH1 1; PUSH1 0; MSTORE
      <<96, 1, 96, 1, 96, 0, 3, 87>>,    \* PUSH1 1; PUSH1 1; PUSH1 0; SUB; JUMPI
      <<97, 0, 1, 80>> }                 \* PUSH2 1; POP
\* Codes that write, read and return memory, a code of one byte that is no
\* opcode, and a loop that leaves one more word on the stack at every turn.
MemoryCodes ==
    { <<96, 1, 96, 32, 82, 96, 0, 81>>,                  \* PUSH1 1; PUSH1 32; MSTORE; PUSH1 0; MLOAD
      <<96, 1, 96, 0, 82, 96, 0, 81, 96, 2, 1>>,         \* .. MSTORE; PUSH1 0; MLOAD; PUSH1 2; ADD
      <<96, 2, 96, 0, 96, 32, 57, 96, 0, 81, 96, 2, 81>>, \* PUSH1 2; PUSH1 0; PUSH1 32; CODECOPY;
                                                         \* PUSH1 0; MLOAD; PUSH1 2; MLOAD
      <<96, 0, 81>>,                                     \* PUSH1 0; MLOAD
      <<96, 1, 96, 0, 82, 96, 1, 96, 0, 82>>,            \* PUSH1 1; PUSH1 0; MSTORE, twice
      <<96, 0, 96, 0, 243>>,                             \* PUSH1 0; PUSH1 0; RETURN
      <<96, 1, 96, 0, 82, 96, 32, 96, 0, 243>>,          \* .. MSTORE; PUSH1 32; PUSH1 0; RETURN
      <<96, 1, 96, 0, 82, 96, 0, 96, 31, 243, 0>>,       \* .. MSTORE; PUSH1 0; PUSH1 31; RETURN; STOP
      <<12>>,                                            \* 0x0c, no opcode
      <<91, 96, 1, 96, 1, 96, 0, 87>> }                  \* JUMPDEST; PUSH1 1; PUSH1 1; PUSH1 0; JUMPI
\* Codes that write storage: a slot set and cleared, set twice, cleared while
\* empty, two slots, and an SSTORE on a stack of one word.
StorageCodes ==
    { <<96, 1, 96, 0, 85, 96, 0, 96, 0, 85>>,            \* PUSH1 1; PUSH1 0; SSTORE; PUSH1 0; PUSH1 0; SSTORE
      <<96, 1, 96, 0, 85, 96, 1, 96, 0, 85>>,            \* .. SSTORE; PUSH1 1; PUSH1 0; SSTORE
      <<96, 0, 96, 0, 85, 0>>,                           \* PUSH1 0; PUSH1 0; SSTORE; STOP
      <<96, 1, 96, 0, 85, 96, 0, 96, 1, 85>>,            \* .. SSTORE; PUSH1 0; PUSH1 1; SSTORE
      <<96, 0, 85>> }                                    \* PUSH1 0; SSTORE
Codes ==
    UNION { [1..n -> CodeBytes] : n \in 0..MaxCodeLen } \cup ExtraCodes \cup MemoryCodes
        \cup StorageCodes

\* The codes whose runs are checked to their end under fairness.
MaxFairCodeLen == 2
FairCodes == UNION { [1..n -> CodeBytes] : n \in 0..MaxFairCodeLen } \cup ExtraCodes

\* The gas of the call parameters, and the consumed gas past which the model
\* follows a run no further.
GasValues == { 2, 24 }

\* gas_call_or_create is called on meters that consumed, and for needs of, 0
\* to MaxGasArg, 64 or 130 gas; the gas requested is none, one of these
\* amounts, 127, or the word 2^256 - 1 (-1), which no usize holds; the
\* divisor of the schedule is none or 0, 1, 2, 3 or 64.
MaxGasArg == 4
GasArgs == 0..MaxGasArg \cup {64, 130}
GasRequests ==
    {[tag |-> "None", val |-> 0]} \cup {[tag |-> "Some", val |-> v] : v \in GasArgs \cup {127, -1}}
CapDivisors ==
    {[tag |-> "None", val |-> 0]} \cup {[tag |-> "Some", val |-> d] : d \in {0, 1, 2, 3, 64}}
GasCap == 60

\* The depth of the stack at which the model follows a run no further.
MaxStack == 1025

\* The calls on one RLP stream, the longest list begun on it, the byte
\* strings appended to it and the encoded items appended raw.
MaxStreamOps == 5
MaxListLen == 2
StreamValues == { <<1>>, <<200, 1>> }
StreamRaws == { <<193, 128>> }

\* The longest byte string and list payload encoded on their own, the bytes
\* they are filled with, the longest payload handed to the integer decoders
\* and the bytes of the integers that are encoded and decoded again.
\* The jobs sent to one collator worker, its largest block size and the
\* receive timeouts followed in one run.
MaxJobs == 3
MaxBlockSize == 3
MaxTimeouts == 2

MaxStringLen == 257
StringBytes == { 0, 127, 128, 255 }
MaxPayloadLen == 9
IntegerBytes == { 1, 127, 128, 255 }

(***************************************************************************)
(* src/rlp/src/rlp.rs: RLPStream.  data holds the bytes written so far.    *)
(* The 32 bytes of a keccak-256 hash are symbolic: each is written as the  *)
(* non-byte 256 and the hash they stand for is appended to refs, in        *)
(* stream order.                                                           *)
(***************************************************************************)
STR_OFFSET == 128
LIST_OFFSET == 192
LEN_CUTOFF == 55

RECURSIVE to_binary(_)
to_binary(x) == IF x = 0 THEN <<>> ELSE Append(to_binary(x \div 256), x % 256)

encode_length(len, offset) ==
    IF len < 55 THEN <<len + offset>>
    ELSE <<Len(to_binary(len)) + offset + 55>> \o to_binary(len)

RLPStream_new == [data |-> <<>>, refs |-> <<>>, appending_list |-> <<>>, panicked |-> FALSE]

is_processing_list(s) == s.appending_list # <<>>

\* finish_list: the header is appended and rotated in front of the payload.
finish_list(s, pos) ==
    LET data_len == Len(s.data) - pos
        enc_vec == encode_length(data_len, LIST_OFFSET)
    IN [s EXCEPT !.data = SubSeq(s.data, 1, pos) \o enc_vec \o SubSeq(s.data, pos + 1, Len(s.data))]

\* list_appended that does not count a finished list as an item of the list
\* that encloses it.
list_appended_once(s, items) ==
    IF ~is_processing_list(s) THEN s
    ELSE LET idx == Len(s.appending_list)
             pos == s.appending_list[idx][1]
             pending_size == s.appending_list[idx][2]
         IN IF items > pending_size THEN [s EXCEPT !.panicked = TRUE]
            ELSE IF pending_size - items = 0
            THEN [finish_list(s, pos) EXCEPT
                     !.appending_list = SubSeq(s.appending_list, 1, idx - 1)]
            ELSE [s EXCEPT !.appending_list[idx] = <<pos, pending_size - items>>]

RECURSIVE list_appended(_, _)
list_appended(s, items) ==
    IF ~is_processing_list(s) THEN s
    ELSE LET idx == Len(s.appending_list)
             pos == s.appending_list[idx][1]
             pending_size == s.appending_list[idx][2]
         IN IF items > pending_size THEN [s EXCEPT !.panicked = TRUE]
            ELSE IF pending_size - items = 0
            THEN list_appended([finish_list(s, pos) EXCEPT
                                   !.appending_list = SubSeq(s.appending_list, 1, idx - 1)], 1)
            ELSE [s EXCEPT !.appending_list[idx] = <<pos, pending_size - items>>]

begin_list(s, len) ==
    IF len = 0 THEN list_appended([s EXCEPT !.data = Append(s.data, LIST_OFFSET)], 1)
    ELSE [s EXCEPT !.appending_list = Append(s.appending_list, <<Len(s.data), len>>)]

RLPStream_new_list(len) == begin_list(RLPStream_new, len)

\* write_iter on an iterator of exact size: the bytes of one string item.
write_iter(s, bytes) ==
    LET len == Len(bytes)
    IN IF len = 0 THEN [s EXCEPT !.data = Append(s.data, STR_OFFSET)]
       ELSE IF len < 55
       THEN IF len = 1 /\ bytes[1] < STR_OFFSET
            THEN [s EXCEPT !.data = Append(s.data, bytes[1])]
            ELSE [s EXCEPT !.data = (s.data \o <<len + STR_OFFSET>>) \o bytes]
       ELSE [s EXCEPT !.data = ((s.data \o <<Len(to_binary(len)) + STR_OFFSET + LEN_CUTOFF>>)
                                   \o to_binary(len)) \o bytes]

\* append(&e): e.encode(self), then one item of the open list.
append_encoded(s) == IF is_processing_list(s) THEN list_appended(s, 1) ELSE s

\* append of a Vec<u8>
append(s, bytes) == append_encoded(write_iter(s, bytes))

append_empty(s) == list_appended([s EXCEPT !.data = Append(s.data, 128)], 1)

\* append_raw of bytes encoded before: raw is their data and refs.
append_raw(s, raw) ==
    list_appended([s EXCEPT !.data = s.data \o raw.data, !.refs = s.refs \o raw.refs], 1)

\* The bytes a stream is turned into (From<RLPStream> for Vec<u8>).
RLPStream_into(s) == [data |-> s.data, refs |-> s.refs]

(***************************************************************************)
(* src/rlp/src/impls.rs: the integers.  An integer of w bytes is written   *)
(* as its to_be_bytes(), a sequence of w bytes, so that a u64 keeps its 64 *)
(* bits.  A decoded value is [res, val]: res is "Ok" or the Error.         *)
(***************************************************************************)
Decoded(val) == [res |-> "Ok", val |-> val]
DecodeErr(e) == [res |-> e, val |-> <<>>]

\* leading_zeros() / 8 of the integer with these to_be_bytes()
RECURSIVE leading_empty_bytes(_)
leading_empty_bytes(buffer) ==
    IF buffer = <<>> \/ buffer[1] # 0 THEN 0
    ELSE 1 + leading_empty_bytes(SubSeq(buffer, 2, Len(buffer)))

\* impl_encodable_for_u: the bytes written for the integer, all of
\* to_be_bytes() (the leading zero bytes are not left out)
u_encode_padded(s, buffer) == write_iter(s, buffer)

\* impl_encodable_for_u!: encode of a u8 or a u64
u_encode(s, buffer) ==
    write_iter(s, SubSeq(buffer, leading_empty_bytes(buffer) + 1, Len(buffer)))

\* The value of at most three big-endian bytes
RECURSIVE be_value(_)
be_value(bytes) ==
    IF bytes = <<>> THEN 0
    ELSE be_value(SubSeq(bytes, 1, Len(bytes) - 1)) * 256 + bytes[Len(bytes)]

\* decode_usize; bytes is not empty
decode_usize(bytes) ==
    IF Len(bytes) <= 8
    THEN IF bytes[1] = 0 THEN DecodeErr("RlpInvalidIndirection")
         ELSE Decoded(be_value(bytes))
    ELSE DecodeErr("RlpIsTooBig")

\* src/rlp/src/rlpin.rs (not among the sources): Rlp::decoder().decode_value
\* hands the payload of the string the bytes rlp hold to the closure of the
\* caller; this is the payload, or the error that is returned without
\* calling the closure.
decode_value(rlp) ==
    IF rlp = <<>> THEN DecodeErr("RlpIsTooShort")
    ELSE LET l == rlp[1] IN
         IF l <= 127 THEN Decoded(<<l>>)
         ELSE IF l <= 183
         THEN LET last_index_of == 1 + l - 128
                  d == SubSeq(rlp, 2, last_index_of)
              IN IF Len(rlp) < last_index_of THEN DecodeErr("RlpInconsistentLengthAndData")
                 ELSE IF l = 129 /\ d[1] < 128 THEN DecodeErr("RlpInvalidIndirection")
                 ELSE Decoded(d)
         ELSE IF l <= 191
         THEN LET len_of_len == l - 183
                  begin_of_value == 1 + len_of_len
              IN IF Len(rlp) < begin_of_value THEN DecodeErr("RlpInconsistentLengthAndData")
                 ELSE LET len == decode_usize(SubSeq(rlp, 2, begin_of_value))
                      IN IF len.res # "Ok" THEN len
                         ELSE IF Len(rlp) < begin_of_value + len.val
                         THEN DecodeErr("RlpInconsistentLengthAndData")
                         ELSE Decoded(SubSeq(rlp, begin_of_value + 1, begin_of_value + len.val))
         ELSE DecodeErr("RlpExpectedToBeData")

\* Decodable for u8: the closure
u8_of_bytes(bytes) ==
    CASE Len(bytes) = 1 /\ bytes[1] # 0 -> Decoded(<<bytes[1]>>)
      [] Len(bytes) = 0 -> Decoded(<<0>>)
      [] Len(bytes) = 1 -> DecodeErr("RlpInvalidIndirection")
      [] OTHER -> DecodeErr("RlpIsTooBig")

\* u8::decode(rlp)
u8_decode(rlp) ==
    LET payload == decode_value(rlp)
    IN IF payload.res # "Ok" THEN payload ELSE u8_of_bytes(payload.val)

\* mem::size_of::<u64>()
size_of_u64 == 8

\* impl_decodable_for_u!(u64): the closure without the test of the first byte
u64_of_bytes_any(rlp, bytes) ==
    LET l == Len(bytes) IN
    IF l <= 1
    THEN LET v == u8_decode(rlp)
         IN IF v.res # "Ok" THEN v ELSE Decoded([i \in 1..(size_of_u64 - 1) |-> 0] \o v.val)
    ELSE IF l <= size_of_u64
    THEN Decoded([i \in 1..(size_of_u64 - l) |-> 0] \o bytes)
    ELSE DecodeErr("RlpIsTooBig")

\* impl_decodable_for_u!(u64): the closure; res, the sum of the bytes
\* shifted to their places, is written as its to_be_bytes()
u64_of_bytes(rlp, bytes) ==
    LET l == Len(bytes) IN
    IF l <= 1
    THEN LET v == u8_decode(rlp)
         IN IF v.res # "Ok" THEN v ELSE Decoded([i \in 1..(size_of_u64 - 1) |-> 0] \o v.val)
    ELSE IF l <= size_of_u64
    THEN IF bytes[1] = 0 THEN DecodeErr("RlpInvalidIndirection")
         ELSE Decoded([i \in 1..(size_of_u64 - l) |-> 0] \o bytes)
    ELSE DecodeErr("RlpIsTooBig")

\* u64::decode(rlp)
u64_decode(rlp) ==
    LET payload == decode_value(rlp)
    IN IF payload.res # "Ok" THEN payload ELSE u64_of_bytes(rlp, payload.val)

(***************************************************************************)
(* src/common/src/hash.rs: H256 and KeccakHasher.  keccak-256 is modelled  *)
(* as collision free: a hash is its preimage; H256::default() is the only  *)
(* zero hash.                                                              *)
(***************************************************************************)
KeccakHasher_LENGTH == 32

H256_default == [zero |-> TRUE, pre |-> [data |-> <<>>, refs |-> <<>>]]

KeccakHasher_hash(encoded) == [zero |-> FALSE, pre |-> encoded]

\* append of an H256 (impl_fixed_hash_rlp: write_iter over its 32 bytes)
append_hash(s, h) ==
    LET w == write_iter(s, [i \in 1..KeccakHasher_LENGTH |-> 256])
    IN append_encoded([w EXCEPT !.refs = Append(w.refs, h)])

(***************************************************************************)
(* src/trie/src/encoding.rs                                                *)
(***************************************************************************)
TERMINAL == 16
CHILD_SIZE == 17

Min(a, b) == IF a < b THEN a ELSE b

RECURSIVE prefix_len_from(_, _, _)
prefix_len_from(a, b, i) ==
    IF i < Min(Len(a), Len(b)) /\ a[i + 1] = b[i + 1]
    THEN prefix_len_from(a, b, i + 1)
    ELSE i

prefix_len(a, b) == prefix_len_from(a, b, 0)

\* key_bytes_to_hex writing the high nibble of each byte twice.
key_bytes_to_hex_high_twice(key) ==
    [i \in 1..(2 * Len(key) + 1) |->
        IF i = 2 * Len(key) + 1 THEN TERMINAL
        ELSE key[(i + 1) \div 2] \div 16]

key_bytes_to_hex(key) ==
    [i \in 1..(2 * Len(key) + 1) |->
        IF i = 2 * Len(key) + 1 THEN TERMINAL
        ELSE IF i % 2 = 1 THEN key[(i + 1) \div 2] \div 16
        ELSE key[i \div 2] % 16]

\* The bits of a byte, for the u8 operators | and <<.
RECURSIVE BitOr(_, _)
BitOr(a, b) ==
    IF a = 0 THEN b
    ELSE IF b = 0 THEN a
    ELSE 2 * BitOr(a \div 2, b \div 2) + (IF a % 2 = 1 \/ b % 2 = 1 THEN 1 ELSE 0)

has_term(hex) == hex # <<>> /\ hex[Len(hex)] = TERMINAL

RECURSIVE decode_nibbles(_, _, _, _)
decode_nibbles(nibbles, lo, hi, bytes) ==
    IF lo < hi
    THEN decode_nibbles(nibbles, lo + 2, hi,
                        Append(bytes, BitOr((nibbles[lo + 1] * 16) % 256, nibbles[lo + 2])))
    ELSE bytes

\* hex_to_compact without the odd flag.
hex_to_compact_unflagged(hex) ==
    LET terminator == IF has_term(hex) THEN 1 ELSE 0
        hi == Len(hex) - terminator
        odd == hi % 2 = 1
        flag == IF odd THEN BitOr(terminator * 32, hex[1]) ELSE terminator * 32
    IN decode_nibbles(hex, IF odd THEN 1 ELSE 0, hi, <<flag>>)

hex_to_compact(hex) ==
    LET terminator == IF has_term(hex) THEN 1 ELSE 0
        hi == Len(hex) - terminator
        odd == hi % 2 = 1
        flag == IF odd THEN BitOr(BitOr(terminator * 32, 16), hex[1]) ELSE terminator * 32
    IN decode_nibbles(hex, IF odd THEN 1 ELSE 0, hi, <<flag>>)

(***************************************************************************)
(* src/trie/src/storage.rs: NodeLocation and Cache.  A location is the     *)
(* integer -1 for NodeLocation::None and the cache index i >= 0 for        *)
(* NodeLocation::Memory(i).  Trie::new is the only constructor and no      *)
(* operation rewrites a location to Persistence, so neither Persistence    *)
(* locations nor MemorySlot::Loaded slots exist; a slot is the node of its *)
(* MemorySlot::Updated.                                                    *)
(***************************************************************************)
NodeLocation_None == -1

Node_Empty == [t |-> "Empty", key |-> <<>>, val |-> NodeLocation_None, children |-> <<>>, v |-> <<>>]
Node_Short(key, val) == [t |-> "Short", key |-> key, val |-> val, children |-> <<>>, v |-> <<>>]
Node_Full(children) == [t |-> "Full", key |-> <<>>, val |-> NodeLocation_None, children |-> children, v |-> <<>>]
Node_Value(v) == [t |-> "Value", key |-> <<>>, val |-> NodeLocation_None, children |-> <<>>, v |-> v]

\* Cache::insert: reuse the front of the free list, else push.
Cache_insert(c, node) ==
    IF c.free_indices # <<>>
    THEN [c |-> [c EXCEPT !.slots[Head(c.free_indices) + 1] = node,
                          !.free_indices = Tail(c.free_indices)],
          idx |-> Head(c.free_indices)]
    ELSE [c |-> [c EXCEPT !.slots = Append(c.slots, node)],
          idx |-> Len(c.slots)]

\* Cache::get_node
Cache_get_node(c, index) ==
    IF index + 1 \in DOMAIN c.slots THEN c.slots[index + 1] ELSE Node_Empty

\* Cache::replace
Cache_replace(c, index, node) == [c EXCEPT !.slots[index + 1] = node]

\* Cache::take: the index goes to the back of the free list and the slot is
\* left holding MemorySlot::Updated(Node::Empty).
Cache_take(c, index) ==
    [c |-> [c EXCEPT !.slots[index + 1] = Node_Empty,
                     !.free_indices = Append(c.free_indices, index)],
     node |-> c.slots[index + 1]]

(***************************************************************************)
(* src/trie/src/trie.rs                                                    *)
(***************************************************************************)
Trie_new == [root_loc |-> NodeLocation_None, slots |-> <<>>, free_indices |-> <<>>, db |-> {}]

Option_None == [tag |-> "None", val |-> <<>>]
Option_Some(v) == [tag |-> "Some", val |-> v]
Option_Panic == [tag |-> "Panic", val |-> <<>>]

RECURSIVE get(_, _, _, _)
get(c, node_loc, key, pos) ==
    IF key = <<>> THEN Option_None
    ELSE LET node == IF node_loc = NodeLocation_None THEN Node_Empty
                     ELSE Cache_get_node(c, node_loc)
         IN CASE node.t = "Empty" -> Option_None
              [] node.t = "Short" ->
                    IF pos > Len(key) THEN Option_Panic
                    ELSE LET matchlen == prefix_len(node.key, SubSeq(key, pos + 1, Len(key)))
                         IN IF matchlen # Len(node.key) THEN Option_None
                            ELSE get(c, node.val, key, pos + matchlen)
              [] node.t = "Full" ->
                    IF pos >= Len(key) THEN Option_Panic
                    ELSE get(c, node.children[key[pos + 1] + 1], key, pos + 1)
              [] node.t = "Value" ->
                    IF Len(key) # pos THEN Option_None ELSE Option_Some(node.v)

try_get(t, key) == get(t, t.root_loc, key_bytes_to_hex(key), 0)

\* The result of a recursive step: the cache after it, the location it
\* returns and "Ok", the Error it returns, or "Panic".
Res(c, loc, res) == [c |-> c, loc |-> loc, res |-> res]

\* cache.insert(MemorySlot::Updated(n)) returned as Ok(NodeLocation::Memory(idx))
Inserted(c, n) == LET i == Cache_insert(c, n) IN Res(i.c, i.idx, "Ok")

\* destroy: the slot is taken out of the cache (the node goes to delete_items,
\* which nothing reads).
destroy(c, node_loc) ==
    IF node_loc = NodeLocation_None THEN c ELSE Cache_take(c, node_loc).c

RECURSIVE insert_inner(_, _, _, _)
insert_inner(c, node_loc, key, value) ==
    IF node_loc = NodeLocation_None
    THEN IF key = <<>> THEN Res(c, value, "Ok")
         ELSE Inserted(c, Node_Short(key, value))
    ELSE LET t == Cache_take(c, node_loc)
             node == t.node
         IN IF key = <<>> THEN Res(t.c, value, "Ok")
            ELSE CASE node.t = "Empty" ->
                        Res(Cache_replace(t.c, node_loc, Node_Short(key, value)), node_loc, "Ok")
                   [] node.t = "Short" ->
                        LET matchlen == prefix_len(node.key, key)
                        IN IF matchlen = Len(node.key)
                           THEN LET new == insert_inner(t.c, node.val,
                                                        SubSeq(key, matchlen + 1, Len(key)), value)
                                IN IF new.res # "Ok" THEN new
                                   ELSE Inserted(new.c, Node_Short(node.key, new.loc))
                           ELSE IF matchlen >= Len(key) THEN Res(t.c, NodeLocation_None, "Panic")
                           ELSE LET c1 == key[matchlen + 1]
                                    c2 == node.key[matchlen + 1]
                                    r1 == insert_inner(t.c, NodeLocation_None,
                                                       SubSeq(key, matchlen + 2, Len(key)), value)
                                    r2 == insert_inner(r1.c, NodeLocation_None,
                                                       SubSeq(node.key, matchlen + 2, Len(node.key)),
                                                       node.val)
                                    children == [i \in 1..CHILD_SIZE |->
                                                    IF i = c2 + 1 THEN r2.loc
                                                    ELSE IF i = c1 + 1 THEN r1.loc
                                                    ELSE NodeLocation_None]
                                    branch == Cache_insert(r2.c, Node_Full(children))
                                IN IF matchlen = 0 THEN Res(branch.c, branch.idx, "Ok")
                                   ELSE Inserted(branch.c,
                                                 Node_Short(SubSeq(node.key, 1, matchlen), branch.idx))
                   [] node.t = "Full" ->
                        LET i == key[1]
                            r == insert_inner(t.c, node.children[i + 1], Tail(key), value)
                        IN IF r.res # "Ok" THEN r
                           ELSE Inserted(r.c, Node_Full([node.children EXCEPT ![i + 1] = r.loc]))
                   [] node.t = "Value" -> Res(t.c, NodeLocation_None, "Panic")

\* insert: the value node is put into the cache first
insert(c, node_loc, key, val) ==
    LET v == Cache_insert(c, Node_Value(val))
    IN insert_inner(v.c, node_loc, key, v.idx)

\* The loop of delete over the children of a Full node: -1 when all are
\* empty, -2 when more than one is not, else the index of the only one.
\* sole_child that reports more than one child whenever one is left.
sole_child_never_sole(children) ==
    IF \A i \in 0..(CHILD_SIZE - 1) : children[i + 1] = NodeLocation_None THEN -1 ELSE -2

sole_child(children) ==
    LET nz == {i \in 0..(CHILD_SIZE - 1) : children[i + 1] # NodeLocation_None}
    IN IF nz = {} THEN -1
       ELSE IF Cardinality(nz) = 1 THEN CHOOSE i \in nz : TRUE
       ELSE -2

\* The Short node that is put over its child without a look at the child.
short_over_unmerged(c, nkey, child_loc) == Inserted(c, Node_Short(nkey, child_loc))

\* delete, the end of the Short arm: the Short node with key nkey that
\* replaces the deleted one over the child at child_loc; a child that is a
\* Short node is destroyed and merged into it.
short_over(c, nkey, child_loc) ==
    LET child == c.slots[child_loc + 1]
    IN IF child.t = "Short"
       THEN Inserted(destroy(c, child_loc), Node_Short(nkey \o child.key, child.val))
       ELSE Inserted(c, Node_Short(nkey, child_loc))

RECURSIVE delete(_, _, _)
delete(c, node_loc, key) ==
    IF node_loc = NodeLocation_None THEN Res(c, NodeLocation_None, "InvalidNodeLocation")
    ELSE LET node == c.slots[node_loc + 1]
         IN CASE node.t = "Empty" -> Res(c, NodeLocation_None, "KeyNotExists")
              [] node.t = "Full" ->
                   LET c1 == destroy(c, node_loc)
                   IN IF key = <<>> THEN Res(c1, NodeLocation_None, "Panic")
                      ELSE LET sliceidx == key[1]
                               r == delete(c1, node.children[sliceidx + 1], Tail(key))
                               children == [node.children EXCEPT ![sliceidx + 1] = r.loc]
                               pos == sole_child(children)
                           IN IF r.res # "Ok" THEN r
                              ELSE IF r.loc # NodeLocation_None
                              THEN Inserted(r.c, Node_Full(children))
                              ELSE IF pos > -1
                              THEN IF pos # TERMINAL /\ r.c.slots[children[pos + 1] + 1].t = "Short"
                                   THEN LET n == Cache_take(r.c, children[pos + 1])
                                        IN Inserted(n.c, Node_Short(<<pos>> \o n.node.key, n.node.val))
                                   ELSE Inserted(r.c, Node_Short(<<pos>>, children[pos + 1]))
                              ELSE Inserted(r.c, Node_Full(children))
              [] node.t = "Short" ->
                   LET matchlen == prefix_len(node.key, key)
                   IN IF matchlen < Len(node.key) THEN Res(c, NodeLocation_None, "KeyNotExists")
                      ELSE IF matchlen = Len(key) THEN Res(destroy(c, node_loc), NodeLocation_None, "Ok")
                      ELSE LET r == delete(destroy(c, node_loc), node.val,
                                           SubSeq(key, matchlen + 1, Len(key)))
                           IN IF r.res # "Ok" THEN r
                              ELSE IF r.loc = NodeLocation_None
                              THEN Res(r.c, NodeLocation_None, "InvalidNodeLocation")
                              ELSE short_over(r.c, node.key, r.loc)
              [] node.t = "Value" -> Res(c, NodeLocation_None, "Panic")

\* The result of a public operation: the trie after it and "Ok", the Error,
\* or "Panic".  An Err leaves root_loc alone and keeps what the cache became.
OpRes(t, res) == [t |-> t, res |-> res]

try_delete(t, key) ==
    IF key = <<>> THEN OpRes(t, "KeyCannotBeEmpty")
    ELSE LET r == delete(t, t.root_loc, key_bytes_to_hex(key))
         IN IF r.res = "Ok" THEN OpRes([r.c EXCEPT !.root_loc = r.loc], "Ok")
            ELSE OpRes(r.c, r.res)

try_update(t, key, val) ==
    IF key = <<>> THEN OpRes(t, "KeyCannotBeEmpty")
    ELSE IF val = <<>> THEN try_delete(t, key)
    ELSE LET r == insert(t, t.root_loc, key_bytes_to_hex(key), val)
         IN IF r.res = "Ok" THEN OpRes([r.c EXCEPT !.root_loc = r.loc], "Ok")
            ELSE OpRes(r.c, r.res)

(***************************************************************************)
(* src/trie/src/hasher.rs: NodeHasher and Encoder.  A ChildReference is    *)
(* Hash(h), Inline(enc) or Value(v); kind "None" is the Option::None of an *)
(* empty slot of a Full node.                                              *)
(***************************************************************************)
Encoded_empty == [data |-> <<>>, refs |-> <<>>]

ChildReference_None == [kind |-> "None", h |-> H256_default, enc |-> Encoded_empty, v |-> <<>>]
ChildReference_Hash(h) == [kind |-> "Hash", h |-> h, enc |-> Encoded_empty, v |-> <<>>]
ChildReference_Inline(enc) == [kind |-> "Inline", h |-> H256_default, enc |-> enc, v |-> <<>>]
ChildReference_Value(v) == [kind |-> "Value", h |-> H256_default, enc |-> Encoded_empty, v |-> v]

\* Encoder::handle_ref
handle_ref(stream, child_ref) ==
    CASE child_ref.kind = "Hash" -> append_hash(stream, child_ref.h)
      [] child_ref.kind = "Inline" -> append_raw(stream, child_ref.enc)
      [] child_ref.kind = "Value" -> append(stream, child_ref.v)

RECURSIVE full_node_from(_, _, _)

\* Encoder::full_node, the loop over the children from the i-th on; a panic
\* of the stream ends it.
full_node_from(stream, children, i) ==
    IF i > Len(children) \/ stream.panicked THEN stream
    ELSE full_node_from(IF children[i].kind = "None" THEN append_empty(stream)
                        ELSE handle_ref(stream, children[i]),
                        children, i + 1)

\* Encoder::full_node
Encoder_full_node(children) ==
    RLPStream_into(full_node_from(RLPStream_new_list(CHILD_SIZE), children, 1))

\* Encoder::short_node
Encoder_short_node(key, child_ref) ==
    RLPStream_into(handle_ref(append(RLPStream_new_list(2), key), child_ref))

\* Encoder::value_node
Encoder_value_node(key, val) ==
    RLPStream_into(append(append(RLPStream_new_list(2), key), val))

\* The result of a hashing step: the trie (cache and db) after it, the
\* ChildReference it returns, and "Ok" or "Panic".
HRes(c, ref, res) == [c |-> c, ref |-> ref, res |-> res]

\* insert_db_raw: db.insert(hash, encoded); the hash is in ref.
insert_db_raw(c, encoded) ==
    HRes([c EXCEPT !.db = c.db \cup {[key |-> KeccakHasher_hash(encoded), value |-> encoded]}],
         ChildReference_Hash(KeccakHasher_hash(encoded)), "Ok")

\* insert_encoded that hashes a long encoded node and does not write it.
insert_encoded_unwritten(c, encoded) ==
    IF Len(encoded.data) >= KeccakHasher_LENGTH
    THEN HRes(c, ChildReference_Hash(KeccakHasher_hash(encoded)), "Ok")
    ELSE HRes(c, ChildReference_Inline(encoded), "Ok")

\* insert_encoded that hashes and writes every encoded node.
insert_encoded_hashed(c, encoded) == insert_db_raw(c, encoded)

\* insert_encoded: hash the encoded node or keep the raw data if it is short
insert_encoded(c, encoded) ==
    IF Len(encoded.data) >= KeccakHasher_LENGTH
    THEN insert_db_raw(c, encoded)
    ELSE HRes(c, ChildReference_Inline(encoded), "Ok")

\* NodeHasher::take_node_loc: NodeData::Node of the slot taken out of the cache
NodeHasher_take_node_loc(c, node_loc) ==
    IF node_loc = NodeLocation_None THEN [c |-> c, node |-> Node_Empty]
    ELSE Cache_take(c, node_loc)

RECURSIVE hash_inner(_, _)
RECURSIVE hash_full_node_from(_, _, _, _)

\* hash_full_node_children, the loop over the slots 0..15 from slot i on:
\* [c, refs, res], refs the references pushed when res is "Ok".
hash_full_node_from(c, children, i, refs) ==
    IF i = CHILD_SIZE - 1 THEN [c |-> c, refs |-> refs, res |-> "Ok"]
    ELSE LET nd == NodeHasher_take_node_loc(c, children[i + 1])
         IN IF nd.node.t = "Empty"
            THEN hash_full_node_from(nd.c, children, i + 1, Append(refs, ChildReference_None))
            ELSE LET r == hash_inner(nd.c, nd.node)
                 IN IF r.res # "Ok" THEN [c |-> r.c, refs |-> refs, res |-> r.res]
                    ELSE hash_full_node_from(r.c, children, i + 1, Append(refs, r.ref))

\* hash_full_node_children, after the loop over the slots 0..15 gave slots:
\* the terminal slot, and the node is encoded.
hash_full_node_terminal(slots, children) ==
    LET nd == NodeHasher_take_node_loc(slots.c, children[CHILD_SIZE])
    IN IF slots.res # "Ok" THEN HRes(slots.c, ChildReference_None, slots.res)
       ELSE CASE nd.node.t = "Empty" ->
                    insert_encoded(nd.c, Encoder_full_node(Append(slots.refs, ChildReference_None)))
              [] nd.node.t = "Value" ->
                    insert_encoded(nd.c, Encoder_full_node(Append(slots.refs,
                                                                  ChildReference_Value(nd.node.v))))
              [] OTHER -> HRes(nd.c, ChildReference_None, "Panic")

hash_full_node_children(c, children) ==
    hash_full_node_terminal(hash_full_node_from(c, children, 0, <<>>), children)

\* hash_short_node_children, on the NodeData::Node nd
hash_short_node_children(c, key, nd) ==
    LET k == hex_to_compact(key)
    IN IF nd.t = "Value" THEN insert_encoded(c, Encoder_value_node(k, nd.v))
       ELSE LET r == hash_inner(c, nd)
            IN IF r.res # "Ok" THEN r
               ELSE insert_encoded(r.c, Encoder_short_node(k, r.ref))

hash_inner(c, node) ==
    CASE node.t = "Empty" -> HRes(c, ChildReference_Hash(H256_default), "Ok")
      [] node.t = "Full" -> hash_full_node_children(c, node.children)
      [] node.t = "Short" ->
            LET nd == NodeHasher_take_node_loc(c, node.val)
            IN hash_short_node_children(nd.c, node.key, nd.node)
      [] node.t = "Value" -> HRes(c, ChildReference_None, "Panic")

\* NodeHasher::hash: the root is written to the db whatever its length
NodeHasher_hash(c, node) ==
    LET r == hash_inner(c, node)
    IN IF r.res # "Ok" THEN r
       ELSE IF r.ref.kind = "Hash" THEN r
       ELSE IF r.ref.kind = "Inline" THEN insert_db_raw(r.c, r.ref.enc)
       ELSE HRes(r.c, ChildReference_None, "Panic")

\* Trie::commit: [t, res, h]; root_loc is left as it is.
commit(t) ==
    IF t.root_loc = NodeLocation_None THEN [t |-> t, res |-> "Ok", h |-> H256_default]
    ELSE LET x == Cache_take(t, t.root_loc)
             r == NodeHasher_hash(x.c, x.node)
         IN [t |-> r.c, res |-> r.res, h |-> r.ref.h]

(***************************************************************************)
(* src/ethvm: the interpreter.  A U256 is the integer n for the word n and *)
(* the integer -n for the word 2^256 - n; every word of the model is one   *)
(* of the two for a small n, so ADD and SUB are + and - and never leave    *)
(* the representation.                                                     *)
(*                                                                         *)
(* src/ethvm/src/instructions.rs (not among the sources): the opcodes of   *)
(* the code bytes the model runs and their gas tiers, as in every EVM.     *)
(* "None" is a byte Instruction::from_u8 knows no instruction for.         *)
(***************************************************************************)
Instruction_from_u8(b) ==
    CASE b = 0 -> "STOP"
      [] b = 1 -> "ADD"
      [] b = 3 -> "SUB"
      [] b = 5 -> "SDIV"
      [] b = 57 -> "CODECOPY"
      [] b = 80 -> "POP"
      [] b = 81 -> "MLOAD"
      [] b = 82 -> "MSTORE"
      [] b = 85 -> "SSTORE"
      [] b = 86 -> "JUMP"
      [] b = 87 -> "JUMPI"
      [] b = 91 -> "JUMPDEST"
      [] b = 96 -> "PUSH1"
      [] b = 97 -> "PUSH2"
      [] b = 243 -> "RETURN"
      [] OTHER -> "None"

\* instruction.info().tier.idx(): Zero 0, Base 1, VeryLow 2, Low 3, Mid 4,
\* High 5, Ext 6, Special 7
Instruction_tier_idx(instruction) ==
    CASE instruction \in {"STOP", "RETURN"} -> 0
      [] instruction = "POP" -> 1
      [] instruction \in {"ADD", "SUB", "MSTORE", "MLOAD", "CODECOPY", "PUSH1", "PUSH2"} -> 2
      [] instruction = "SDIV" -> 3
      [] instruction = "JUMP" -> 4
      [] instruction = "JUMPI" -> 5
      [] instruction \in {"JUMPDEST", "SSTORE"} -> 7

\* instruction.data_bytes() of PUSH1 and PUSH2
Instruction_data_bytes(instruction) == IF instruction = "PUSH1" THEN 1 ELSE 2

\* src/ethvm/src/types/schedule.rs: Schedule::new() and the derived
\* Schedule::default()
Schedule_new == [tier_step_gas |-> <<0, 2, 3, 5, 8, 10, 20, 0>>, memory_gas |-> 3,
                 quad_coeff_div |-> 512, eip1283 |-> FALSE, sstore_refund_gas |-> 15000,
                 sub_gas_cap_divisor |-> [tag |-> "None", val |-> 0]]
Schedule_default == [tier_step_gas |-> <<0, 0, 0, 0, 0, 0, 0, 0>>, memory_gas |-> 0,
                     quad_coeff_div |-> 0, eip1283 |-> FALSE, sstore_refund_gas |-> 0,
                     sub_gas_cap_divisor |-> [tag |-> "None", val |-> 0]]

\* A Schedule whose public field eip1283 was set
Schedule_eip1283 == [Schedule_new EXCEPT !.eip1283 = TRUE]

\* U256::as_usize panics on a word above usize::MAX
fits_usize(w) == w >= 0

\* U256::from(&[u8]): the big-endian value of at most two bytes
RECURSIVE U256_from(_)
U256_from(bytes) ==
    IF bytes = <<>> THEN 0
    ELSE 256 * U256_from(SubSeq(bytes, 1, Len(bytes) - 1)) + bytes[Len(bytes)]

\* U256::to_big_endian: the 32 bytes of a word
to_big_endian(w) ==
    [i \in 1..32 |->
        IF i <= 29 THEN (IF w >= 0 THEN 0 ELSE 255)
        ELSE IF i = 30 THEN (w \div 65536) % 256
        ELSE IF i = 31 THEN (w \div 256) % 256
        ELSE w % 256]

\* src/evm/src/interpreter/memory.rs: Memory for Vec<u8> (the memory module
\* of src/ethvm is not among the sources).  resize fills with zeros; write
\* puts the 32 bytes of the word at offset and does not resize.
Memory_resize(memory, new_size) ==
    [i \in 1..new_size |-> IF i <= Len(memory) THEN memory[i] ELSE 0]

Memory_write(memory, offset, value) ==
    [i \in 1..Len(memory) |->
        IF i > offset /\ i <= offset + 32 THEN to_big_endian(value)[i - offset]
        ELSE memory[i]]

\* U256::from(&[u8]) of 32 bytes.  The words the model's codes read have
\* their 29 high bytes all 0x00 or all 0xff.
U256_from_word(bytes) ==
    LET low == 65536 * bytes[30] + 256 * bytes[31] + bytes[32]
    IN CASE \A i \in 1..29 : bytes[i] = 0 -> low
         [] \A i \in 1..29 : bytes[i] = 255 -> low - 16777216

\* Memory::read: the word at offset; the caller has checked the range
Memory_read(memory, offset) == U256_from_word(SubSeq(memory, offset + 1, offset + 32))

\* is_valid_range, for an offset and a size whose sum does not overflow
is_valid_range(offset, size) == size > 0

\* Memory::read_slice: the empty slice for a range that is not valid, else
\* the bytes of the range; indexing past the end panics (ok is FALSE)
Memory_read_slice(memory, off, size) ==
    IF ~is_valid_range(off, size) THEN [ok |-> TRUE, bytes |-> <<>>]
    ELSE IF off + size > Len(memory) THEN [ok |-> FALSE, bytes |-> <<>>]
    ELSE [ok |-> TRUE, bytes |-> SubSeq(memory, off + 1, off + size)]

\* Memory::write_slice: nothing for an empty slice; the caller has checked
\* that the slice lies inside the memory
Memory_write_slice(memory, offset, slice) ==
    IF slice = <<>> THEN memory
    ELSE [i \in 1..Len(memory) |->
            IF i > offset /\ i <= offset + Len(slice) THEN slice[i - offset]
            ELSE memory[i]]

(***************************************************************************)
(* src/ethvm/src/cache.rs: JumpCache                                       *)
(***************************************************************************)
JumpCache_None == [some |-> FALSE, jump_location |-> {}]

\* find_jump_destination: every position of the code is decoded
find_jump_destination(code) ==
    {pos \in 0..(Len(code) - 1) : Instruction_from_u8(code[pos + 1]) = "JUMPDEST"}

\* JumpCache::new; from_u8(..).expect panics on a byte that is no instruction
JumpCache_new(code) ==
    IF \E pos \in 1..Len(code) : Instruction_from_u8(code[pos]) = "None"
    THEN [ok |-> FALSE, cache |-> JumpCache_None]
    ELSE [ok |-> TRUE, cache |-> [some |-> TRUE, jump_location |-> find_jump_destination(code)]]

\* valid_jump_dest that also accepts the offset before a recorded one.
valid_jump_dest_or_next(cache, dest) ==
    dest \in cache.jump_location \/ dest + 1 \in cache.jump_location

\* valid_jump_dest: TRUE for Ok(()), FALSE for Err(Error::InvalidJump)
valid_jump_dest(cache, dest) == dest \in cache.jump_location

(***************************************************************************)
(* src/ethvm/src/gas.rs: GasMeter, over usize.  No sum of the model comes  *)
(* near usize::MAX, where not_overflow! panics.                            *)
(***************************************************************************)
WORD_BYTES_SIZE == 32

GasMeter_new(gas_limit) == [gas_limit |-> gas_limit, current_gas |-> 0, current_mem_gas |-> 0]

total_gas(meter) == meter.current_mem_gas + meter.current_gas

\* instruction_requirement: Default(gas), Mem {gas, mem_gas, mem_size}, or a
\* panic (peek of an empty stack, as_usize of a word above usize::MAX)
instruction_requirement(instruction, schedule, stack) ==
    LET default_gas == schedule.tier_step_gas[Instruction_tier_idx(instruction) + 1]
    IN IF instruction = "MSTORE"
       THEN IF stack = <<>> \/ ~fits_usize(stack[Len(stack)])
            THEN [kind |-> "Panic", gas |-> 0, mem_gas |-> 0, mem_size |-> 0]
            ELSE LET mem_size == stack[Len(stack)] + WORD_BYTES_SIZE
                     mem_gas == mem_size * schedule.memory_gas
                 IN [kind |-> "Mem", gas |-> default_gas + mem_gas, mem_gas |-> mem_gas,
                     mem_size |-> mem_size]
       ELSE IF instruction = "MLOAD"
       THEN LET mem_gas == WORD_BYTES_SIZE * schedule.memory_gas
            IN [kind |-> "Mem", gas |-> default_gas + mem_gas, mem_gas |-> mem_gas, mem_size |-> 0]
       ELSE IF instruction = "CODECOPY"
       THEN IF Len(stack) < 3 \/ ~fits_usize(stack[Len(stack)])
               \/ ~fits_usize(stack[Len(stack) - 2])
            THEN [kind |-> "Panic", gas |-> 0, mem_gas |-> 0, mem_size |-> 0]
            ELSE LET mem_size == stack[Len(stack)] + stack[Len(stack) - 2]
                     mem_gas == mem_size * schedule.memory_gas
                 IN [kind |-> "Mem", gas |-> default_gas + mem_gas, mem_gas |-> mem_gas,
                     mem_size |-> mem_size]
       ELSE [kind |-> "Default", gas |-> default_gas, mem_gas |-> 0, mem_size |-> 0]

\* to_word_size: the 32-byte words that hold value bytes
to_word_size(value) == (value + 31) \div 32

\* GasMeter::update: the requirement is added; gas_limit is not read
GasMeter_update(meter, r) ==
    [meter EXCEPT !.current_gas = @ + r.gas, !.current_mem_gas = @ + r.mem_gas]

\* src/ethvm/src/cost.rs: <usize as CostType>::from_u256, Err(OutOfGas) for
\* a word that is not the usize of its low 64 bits
usize_from_u256(val) ==
    IF fits_usize(val) THEN [tag |-> "Ok", gas |-> val]
    ELSE [tag |-> "Err", gas |-> 0]

\* The cap of gas_call_or_create with the reserved part left out.
max_gas_provided_all(cap_divisor, gas_remaining) == gas_remaining

\* max_gas_provided of gas_call_or_create; >> 6 is the division by 64
max_gas_provided(cap_divisor, gas_remaining) ==
    IF cap_divisor = 64 THEN gas_remaining - gas_remaining \div 64
    ELSE gas_remaining - gas_remaining \div cap_divisor

\* GasMeter::gas_call_or_create: Ok(gas), Err(Error::OutOfGas) or the panic
\* of a division by zero; requested is an Option<U256>
gas_call_or_create(meter, schedule, needed, requested) ==
    LET converted == usize_from_u256(requested.val)
        divisor == schedule.sub_gas_cap_divisor
    IN IF divisor.tag = "Some" /\ meter.current_gas >= needed
       THEN IF divisor.val = 0 THEN [tag |-> "Panic", gas |-> 0]
            ELSE LET cap == max_gas_provided(divisor.val, meter.current_gas - needed)
                 IN IF requested.tag = "Some" /\ converted.tag = "Ok"
                    THEN [tag |-> "Ok", gas |-> Min(converted.gas, cap)]
                    ELSE [tag |-> "Ok", gas |-> cap]
       ELSE IF requested.tag = "Some" THEN converted
       ELSE IF meter.current_gas >= needed
       THEN [tag |-> "Ok", gas |-> meter.current_gas - needed]
       ELSE [tag |-> "Ok", gas |-> 0]

(***************************************************************************)
(* src/ethvm/src/types/ext.rs (not among the sources): the Ext the         *)
(* interpreter is run with, as the specification describes it.  An Ext is  *)
(* [storage, sstore_clears_refund, access_list, calls]: the storage of the *)
(* contract, a function from the H256 keys that were written to their H256 *)
(* values, the refund accumulated, the (address, key) pairs recorded, and  *)
(* the calls it received during the step under way.  storage_at and        *)
(* set_storage return a Result; which of them fails in a step is an input  *)
(* of the step.                                                            *)
(***************************************************************************)
ExtFailures == {"none", "storage_at", "set_storage"}

\* H256::from_uint / BigEndianHash::from_uint and into_uint: the 32
\* big-endian bytes of the word, and back
H256_from_uint(w) == to_big_endian(w)
H256_into_uint(h) == U256_from_word(h)

Ext_new == [storage |-> <<>>, sstore_clears_refund |-> 0, access_list |-> {}, calls |-> <<>>]

called(e, call) == [e EXCEPT !.calls = Append(@, call)]

\* storage_at: the value of the slot, H256::zero() for a slot never written
Ext_storage_at(e, key) ==
    [ext |-> called(e, [fn |-> "storage_at", key |-> key]),
     value |-> IF key \in DOMAIN e.storage THEN e.storage[key] ELSE H256_from_uint(0)]

Ext_add_sstore_refund(e, value) ==
    [called(e, [fn |-> "add_sstore_refund", value |-> value])
        EXCEPT !.sstore_clears_refund = @ + value]

Ext_set_storage(e, key, value) ==
    [called(e, [fn |-> "set_storage", key |-> key, value |-> value])
        EXCEPT !.storage = [k \in DOMAIN e.storage \cup {key} |->
                               IF k = key THEN value ELSE e.storage[k]]]

Ext_al_insert_storage_key(e, address, key) ==
    [called(e, [fn |-> "al_insert_storage_key", address |-> address, key |-> key])
        EXCEPT !.access_list = @ \cup {<<address, key>>}]

(***************************************************************************)
(* src/ethvm/src/interpreter.rs: CodeReader and Interpreter.  An           *)
(* interpreter is [code, position, stack, memory, gas_meter, jump_cache,   *)
(* params], params holding the address of the ActionParams; the result of  *)
(* a step carries the Ext after it as well.                                *)
(* The result of a step is the interpreter after it and "Continue",        *)
(* "Success", an Error ("InvalidCommand", "InvalidJump", "OutOfGas") or    *)
(* "Panic".                                                                *)
(***************************************************************************)
\* Address::default(), the address of ActionParams::default()
Address_default == [i \in 1..20 |-> 0]

Interpreter_new(code, gas) ==
    [code |-> code, position |-> 0, stack |-> <<>>, memory |-> <<>>,
     gas_meter |-> GasMeter_new(gas), jump_cache |-> JumpCache_None,
     params |-> [address |-> Address_default]]

\* The fields of StepResult::Returned; length is -1 in every other result.
NotReturned == [memory |-> <<>>, offset |-> 0, length |-> -1]

SRes(m, res) == [m |-> m, res |-> res, ret |-> NotReturned]

\* Ok(StepResult::Returned {memory, offset, length})
Returned(m, memory, offset, length) ==
    [m |-> m, res |-> "Returned", ret |-> [memory |-> memory, offset |-> offset, length |-> length]]

\* CodeReader::done
done(m) == m.position >= Len(m.code)

\* CodeReader::read_word: the position moves by bytes, the word is read from
\* the bytes left
read_word(m, bytes) ==
    LET pos == m.position
        end == Min(pos + bytes, Len(m.code))
    IN [m |-> [m EXCEPT !.position = pos + bytes], word |-> U256_from(SubSeq(m.code, pos + 1, end))]

\* The stack without its n top elements
popped(stack, n) == SubSeq(stack, 1, Len(stack) - n)

\* src/ethvm/src/stack.rs: VecStack::push, self.stack.push(elem)
VecStack_push(stack, elem) == Append(stack, elem)

\* process_jump: the jump cache is built on first use; the result is "Ok",
\* "InvalidJump" or "Panic"
process_jump(m, cond, dest) ==
    LET built == IF m.jump_cache.some THEN [ok |-> TRUE, cache |-> m.jump_cache]
                 ELSE JumpCache_new(m.code)
        m1 == [m EXCEPT !.jump_cache = built.cache]
    IN IF ~built.ok THEN SRes(m, "Panic")
       ELSE IF ~cond
       THEN IF m1.position + 1 >= Len(m1.code) THEN SRes(m1, "Panic")
            ELSE SRes([m1 EXCEPT !.position = m1.position + 1], "Ok")
       ELSE IF ~valid_jump_dest(m1.jump_cache, dest) THEN SRes(m1, "InvalidJump")
       ELSE IF dest >= Len(m1.code) THEN SRes(m1, "Panic")
       ELSE SRes([m1 EXCEPT !.position = dest], "Ok")

\* The end of exec_instruction for an arm that does not return
finished(m) == IF done(m) THEN SRes(m, "Success") ELSE SRes(m, "Continue")

\* exec_instruction, for the instructions of the model's code bytes.  JUMP,
\* STOP and SDIV have no arm and fall to the last one.  RETURN empties
\* self.memory before it reads the slice to return from it.
exec_instruction(m, instruction) ==
    LET n == Len(m.stack)
    IN CASE instruction \in {"PUSH1", "PUSH2"} ->
                LET r == read_word(m, Instruction_data_bytes(instruction))
                IN finished([r.m EXCEPT !.stack = VecStack_push(m.stack, r.word)])
         [] instruction = "MSTORE" ->
                IF n < 2 THEN SRes(m, "Panic")
                ELSE LET offset == m.stack[n]
                         value == m.stack[n - 1]
                     IN IF offset < 0 \/ offset + 32 > Len(m.memory) THEN SRes(m, "Panic")
                        ELSE finished([m EXCEPT !.stack = popped(m.stack, 2),
                                                !.memory = Memory_write(m.memory, offset, value)])
         [] instruction = "JUMPI" ->
                IF n < 1 \/ ~fits_usize(m.stack[n]) \/ n < 2 THEN SRes(m, "Panic")
                ELSE LET r == process_jump([m EXCEPT !.stack = popped(m.stack, 2)],
                                           m.stack[n - 1] # 0, m.stack[n])
                     IN IF r.res = "Ok" THEN finished(r.m) ELSE r
         [] instruction = "JUMPDEST" -> finished(m)
         [] instruction = "POP" ->
                IF n < 1 THEN SRes(m, "Panic")
                ELSE finished([m EXCEPT !.stack = popped(m.stack, 1)])
         [] instruction = "SUB" ->
                IF n < 2 THEN SRes(m, "Panic")
                ELSE finished([m EXCEPT !.stack = VecStack_push(popped(m.stack, 2),
                                                                m.stack[n] - m.stack[n - 1])])
         [] instruction = "ADD" ->
                IF n < 2 THEN SRes(m, "Panic")
                ELSE finished([m EXCEPT !.stack = VecStack_push(popped(m.stack, 2),
                                                                m.stack[n] + m.stack[n - 1])])
         [] instruction = "MLOAD" ->
                IF n < 1 THEN SRes(m, "Panic")
                ELSE LET offset == m.stack[n]
                     IN IF offset < 0 \/ offset + 32 > Len(m.memory) THEN SRes(m, "Panic")
                        ELSE finished([m EXCEPT !.stack = VecStack_push(popped(m.stack, 1),
                                                                Memory_read(m.memory, offset))])
         [] instruction = "CODECOPY" ->
                IF n < 3 \/ ~fits_usize(m.stack[n - 1]) \/ ~fits_usize(m.stack[n - 2])
                THEN SRes(m, "Panic")
                ELSE LET dest_offset == m.stack[n]
                         offset == m.stack[n - 1]
                         end == offset + m.stack[n - 2]
                     IN IF end > Len(m.code) \/ dest_offset < 0
                           \/ dest_offset + (end - offset) > Len(m.memory)
                        THEN SRes(m, "Panic")
                        ELSE finished([m EXCEPT !.stack = popped(m.stack, 3),
                                                !.memory = Memory_write_slice(m.memory, dest_offset,
                                                               SubSeq(m.code, offset + 1, end))])
         [] instruction = "RETURN" ->
                IF n < 2 THEN SRes(m, "Panic")
                ELSE LET offset == m.stack[n]
                         length == m.stack[n - 1]
                         mem == m.memory
                         m1 == [m EXCEPT !.stack = popped(m.stack, 2), !.memory = <<>>]
                         slice == Memory_read_slice(m1.memory, offset, length)
                     IN IF ~fits_usize(offset) \/ ~fits_usize(length) \/ ~slice.ok
                        THEN SRes(m1, "Panic")
                        ELSE Returned(m1, Memory_write_slice(mem, 0, slice.bytes), offset, length)
         [] OTHER -> SRes(m, "InvalidCommand")

\* A result of exec_instruction with the Ext it leaves
WithExt(r, e) == [m |-> r.m, res |-> r.res, ret |-> r.ret, ext |-> e]

\* The refund test of SSTORE with the test on the new value left out.
sstore_clears_any(current_val, val) == current_val # 0

\* The test of the SSTORE arm for the refund of a clear
sstore_clears(current_val, val) == current_val # 0 /\ val = 0

\* exec_instruction, the SSTORE arm: an Err of storage_at or set_storage is
\* returned at once by the ? operator ("ExtError"); todo!() panics.
exec_sstore(m, schedule, e, fails) ==
    LET n == Len(m.stack)
    IN IF n < 2 THEN WithExt(SRes(m, "Panic"), e)
       ELSE LET key == H256_from_uint(m.stack[n])
                val == m.stack[n - 1]
                m1 == [m EXCEPT !.stack = popped(m.stack, 2)]
                read == Ext_storage_at(e, key)
                current_val == H256_into_uint(read.value)
                e1 == IF sstore_clears(current_val, val)
                      THEN Ext_add_sstore_refund(read.ext, schedule.sstore_refund_gas)
                      ELSE read.ext
                e2 == called(e1, [fn |-> "set_storage", key |-> key,
                                  value |-> H256_from_uint(val)])
                e3 == Ext_set_storage(e1, key, H256_from_uint(val))
            IN IF fails = "storage_at" THEN WithExt(SRes(m1, "ExtError"), read.ext)
               ELSE IF schedule.eip1283 THEN WithExt(SRes(m1, "Panic"), read.ext)
               ELSE IF fails = "set_storage" THEN WithExt(SRes(m1, "ExtError"), e2)
               ELSE WithExt(finished(m1),
                            Ext_al_insert_storage_key(e3, m1.params.address, key))

\* validate_gas
validate_gas(m) == "Ok"

\* step, with the schedule ext.schedule() returns, the Ext and the call of
\* the Ext that fails in this step
step(m, schedule, e, fails) ==
    IF m.position >= Len(m.code) THEN WithExt(SRes(m, "Panic"), e)
    ELSE LET instruction == Instruction_from_u8(m.code[m.position + 1])
             m1 == [m EXCEPT !.position = m.position + 1]
             requirement == instruction_requirement(instruction, schedule, m1.stack)
             m2 == [m1 EXCEPT !.gas_meter = GasMeter_update(m1.gas_meter, requirement)]
             m3 == IF requirement.kind = "Mem"
                   THEN [m2 EXCEPT !.memory = Memory_resize(m2.memory,
                                                            requirement.mem_size + Len(m2.memory))]
                   ELSE m2
         IN IF instruction = "None" THEN WithExt(SRes(m1, "Panic"), e)
            ELSE IF requirement.kind = "Panic" THEN WithExt(SRes(m1, "Panic"), e)
            ELSE IF validate_gas(m2) # "Ok" THEN WithExt(SRes(m2, validate_gas(m2)), e)
            ELSE IF instruction = "SSTORE" THEN exec_sstore(m3, schedule, e, fails)
            ELSE WithExt(exec_instruction(m3, instruction), e)

(***************************************************************************)
(* src/p2p/src/discovery.rs: DiscoveryInner, the table of the discovery    *)
(* service.  A NodeId is a small integer, SelfId the id of the node        *)
(* itself; keccak of a node id is the table IdHash, a number below         *)
(* 2^HashBits standing for the 256-bit hash with that value.  An Instant   *)
(* is a number of milliseconds.  An endpoint is 0 for one with the udp     *)
(* port 0 and another number for a valid one.  A HashMap over node ids is  *)
(* a function over NodeIds with a value for "no entry".  send_packet       *)
(* succeeds: the channel to the socket task is open.                       *)
(***************************************************************************)
ADDRESS_BYTES_SIZE == 32
MAX_NODES_PING == 32
DISCOVERY_MAX_STEPS == 8
BUCKET_SIZE == 16
ALPHA == 3
PING_TIMEOUT == 500
FIND_NODE_TIMEOUT == 2000
REQUEST_BACKOFF == <<1000, 4000, 16000, 64000>>

SelfId == 0
NodeIds == 0..NodeCount

\* keccak(id.as_bytes()): the nodes 1 .. BUCKET_SIZE + 1 have the hashes 32
\* to 48, all at distance 5 of the hash 0 of the node itself; the nodes after
\* them the hashes 1, 2, ..; the id discovery draws has the hash 63.
DiscoveryTarget == NodeCount + 1
keccak_id(id) ==
    IF id = SelfId THEN 0
    ELSE IF id = DiscoveryTarget THEN 63
    ELSE IF id <= BUCKET_SIZE + 1 THEN 31 + id
    ELSE id - (BUCKET_SIZE + 1)

RECURSIVE BitXor(_, _)
BitXor(a, b) ==
    IF a = 0 THEN b
    ELSE IF b = 0 THEN a
    ELSE 2 * BitXor(a \div 2, b \div 2) + (IF a % 2 = b % 2 THEN 0 ELSE 1)

RECURSIVE leading_bit(_)
leading_bit(x) == IF x <= 1 THEN 0 ELSE 1 + leading_bit(x \div 2)

\* distance: ADDRESS_BYTES_SIZE * 8 - lz - 1 for lz leading zero bits of the
\* xor, the index of its highest bit; -1 for None
distance(a, b) == IF a = b THEN -1 ELSE leading_bit(BitXor(a, b))

NodeEntry_new(id, endpoint) == [id |-> id, endpoint |-> endpoint]

\* NodeEndpoint::is_valid_discovery_node
is_valid_discovery_node(endpoint) == endpoint # 0

\* BucketEntry::new
BucketEntry_new(node, now) ==
    [node |-> node, id_hash |-> keccak_id(node.id), last_seen |-> now,
     backoff_until |-> now, fail_count |-> 0]

NoPing == [some |-> FALSE]
NoFind == [some |-> FALSE]
PingReason_Default == [kind |-> "Default", node_id |-> 0, validity |-> "None"]
PingReason_FromDiscoveryRequest(node_id, validity) ==
    [kind |-> "FromDiscoveryRequest", node_id |-> node_id, validity |-> validity]

\* DiscoveryInner::new; discovery_round is -1 for None, node_table the nodes
\* of the NodeTable
DiscoveryInner_new ==
    [id |-> SelfId, id_hash |-> keccak_id(SelfId),
     buckets |-> [d \in 0..(ADDRESS_BYTES_SIZE * 8 - 1) |-> <<>>],
     not_allowed |-> {},
     pinging_nodes |-> [n \in NodeIds |-> NoPing],
     finding_nodes |-> [n \in NodeIds |-> NoFind],
     to_add |-> <<>>,
     discovery_initiated |-> FALSE, discovery_round |-> -1,
     discovery_id |-> 0, discovery_nodes |-> {},
     node_table |-> {}]

\* The result of a call on the table: the table after it and "Ok", the
\* Error, or "Panic"
DRes(d, res) == [d |-> d, res |-> res]

\* HashMap::len
map_len(map) == Cardinality({n \in NodeIds : map[n].some})

\* The hash send_packet returns for a Ping: the keccak of the signed packet,
\* whose bytes are told by the two endpoints and the second of expiry
ping_hash(e, now) == [to |-> e.endpoint, expiry |-> now \div 1000]

is_allowed(d, node_id) == node_id \notin d.not_allowed

\* ping: the Ping is sent and its metadata kept for the Pong
ping(d, e, reason, now) ==
    DRes([d EXCEPT !.pinging_nodes[e.id] =
            [some |-> TRUE, node |-> e, reason |-> reason, send_at |-> now,
             hash |-> ping_hash(e, now)]], "Ok")

try_ping(d, e, reason, now) ==
    IF ~is_allowed(d, e.id) THEN DRes(d, "NodeBlocked")
    ELSE IF d.pinging_nodes[e.id].some THEN DRes(d, "Ok")
    ELSE IF map_len(d.pinging_nodes) < MAX_NODES_PING THEN ping(d, e, reason, now)
    ELSE DRes([d EXCEPT !.to_add = Append(@, e)], "Ok")

\* The index of the first entry of a bucket with the node id, 0 for none
RECURSIVE position_from(_, _, _)
position_from(bucket, node_id, i) ==
    IF i > Len(bucket) THEN 0
    ELSE IF bucket[i].node.id = node_id THEN i
    ELSE position_from(bucket, node_id, i + 1)

bucket_position(bucket, node_id) == position_from(bucket, node_id, 1)

\* The index of the first entry of a bucket with the hash, 0 for none
RECURSIVE hash_position_from(_, _, _)
hash_position_from(bucket, id_hash, i) ==
    IF i > Len(bucket) THEN 0
    ELSE IF bucket[i].id_hash = id_hash THEN i
    ELSE hash_position_from(bucket, id_hash, i + 1)

\* add_node
add_node(d, e, now) ==
    LET dist == distance(d.id_hash, keccak_id(e.id))
    IN IF dist = -1 THEN DRes(d, "InvalidNodeDistance")
       ELSE IF bucket_position(d.buckets[dist], e.id) # 0 THEN DRes(d, "Ok")
       ELSE try_ping(d, e, PingReason_Default, now)

\* add_node_list, and the loop at the end of on_neighbours: the first Err
\* ends it
RECURSIVE add_node_list(_, _, _)
add_node_list(d, nodes, now) ==
    IF nodes = <<>> THEN DRes(d, "Ok")
    ELSE LET r == add_node(d, Head(nodes), now)
         IN IF r.res # "Ok" THEN r ELSE add_node_list(r.d, Tail(nodes), now)

\* find_node: the request replaces the one the node may have
find_node(d, target, node, now) ==
    DRes([d EXCEPT !.finding_nodes[node.id] =
            [some |-> TRUE, sent_at |-> now, response_count |-> 0, answered |-> FALSE]],
         "Ok")

\* node_to_ping: the first of the entries seen longest ago among those out
\* of backoff; 0 for None
RECURSIVE node_to_ping_from(_, _, _, _)
node_to_ping_from(nodes, now, i, best) ==
    IF i > Len(nodes) THEN best
    ELSE IF nodes[i].backoff_until < now
            /\ (best = 0 \/ nodes[i].last_seen < nodes[best].last_seen)
    THEN node_to_ping_from(nodes, now, i + 1, i)
    ELSE node_to_ping_from(nodes, now, i + 1, best)

node_to_ping(nodes, now) == node_to_ping_from(nodes, now, 1, 0)

\* update_bucket: the entry of the node is refreshed; "NodeIsSelf" and
\* "NodeNotFoundInBucket" are its errors
update_bucket(d, n, now) ==
    LET dist == distance(keccak_id(n.id), d.id_hash)
        index == bucket_position(d.buckets[dist], n.id)
    IN IF dist = -1 THEN [d |-> d, res |-> "NodeIsSelf", distance |-> dist]
       ELSE IF index = 0 THEN [d |-> d, res |-> "NodeNotFoundInBucket", distance |-> dist]
       ELSE [d |-> [d EXCEPT !.buckets[dist][index] =
                       [@ EXCEPT !.node = n, !.backoff_until = now, !.last_seen = now,
                                 !.fail_count = 0]],
             res |-> "Ok", distance |-> dist]

\* update_node: a node that is in no bucket is pushed to the front of its
\* bucket; past BUCKET_SIZE entries the entry seen longest ago is pinged,
\* and unwrap panics when every entry is in backoff
update_node(d, n, now) ==
    LET u == update_bucket(d, n, now)
        d1 == [d EXCEPT !.buckets[u.distance] = <<BucketEntry_new(n, now)>> \o @]
        oldest == node_to_ping(d1.buckets[u.distance], now)
        pinged == IF Len(d1.buckets[u.distance]) > BUCKET_SIZE
                  THEN IF oldest = 0 THEN DRes(d1, "Panic")
                       ELSE try_ping(d1, d1.buckets[u.distance][oldest].node,
                                     PingReason_Default, now)
                  ELSE DRes(d1, "Ok")
    IN IF u.res # "NodeNotFoundInBucket" THEN DRes(u.d, "Ok")
       ELSE IF pinged.res # "Ok" THEN pinged
       ELSE IF is_valid_discovery_node(n.endpoint)
       THEN DRes([pinged.d EXCEPT !.node_table = {e \in @ : e.id # n.id} \cup {n}], "Ok")
       ELSE pinged

\* on_pong that takes the Pong of a pinged node whatever hash it echoes.
on_pong_any_hash(d, node_id, echo_hash, fresh, now) ==
    LET meta == d.pinging_nodes[node_id]
        d1 == [d EXCEPT !.pinging_nodes[node_id] = NoPing]
    IN IF ~fresh THEN DRes(d, "PongExpired")
       ELSE IF ~meta.some THEN DRes(d, "Ok")
       ELSE IF meta.reason.kind = "FromDiscoveryRequest" THEN DRes(d1, "Ok")
       ELSE update_node(d1, meta.node, now)

\* on_pong, of a packet whose timestamp is in the future when fresh
on_pong(d, node_id, echo_hash, fresh, now) ==
    LET meta == d.pinging_nodes[node_id]
        d1 == [d EXCEPT !.pinging_nodes[node_id] = NoPing]
    IN IF ~fresh THEN DRes(d, "PongExpired")
       ELSE IF ~meta.some THEN DRes(d, "Ok")
       ELSE IF echo_hash # meta.hash THEN DRes(d, "Ok")
       ELSE IF meta.reason.kind = "FromDiscoveryRequest" THEN DRes(d1, "Ok")
       ELSE update_node(d1, meta.node, now)

\* on_ping: the Pong is sent, then the sender is added unless its endpoint
\* is no valid one
on_ping(d, node_id, endpoint, fresh, now) ==
    IF ~fresh THEN DRes(d, "PongExpired")
    ELSE IF ~is_valid_discovery_node(endpoint) THEN DRes(d, "Ok")
    ELSE IF ~is_allowed(d, node_id) THEN DRes(d, "Ok")
    ELSE add_node(d, NodeEntry_new(node_id, endpoint), now)

\* check_validity; other_observed_nodes is never written and holds no node
check_validity(d, node) ==
    LET dist == distance(d.id_hash, keccak_id(node.id))
        index == bucket_position(d.buckets[dist], node.id)
    IN IF dist = -1 THEN "Ourselves"
       ELSE IF index # 0
       THEN IF d.buckets[dist][index].node.endpoint = node.endpoint
            THEN "ValidNode" ELSE "UnknownNode"
       ELSE "UnknownNode"

\* on_find_node: a valid node is sent Neighbours packets, which changes
\* nothing here; any other is pinged
on_find_node(d, from_node, endpoint, fresh, now) ==
    LET from_entry == NodeEntry_new(from_node, endpoint)
        validity == check_validity(d, from_entry)
    IN IF ~fresh THEN DRes(d, "PongExpired")
       ELSE IF validity \in {"Ourselves", "ValidNode"} THEN DRes(d, "Ok")
       ELSE try_ping(d, from_entry, PingReason_FromDiscoveryRequest(from_node, validity), now)

\* The nodes of a Neighbours packet that on_neighbours adds: those of its
\* ids that are not the node itself, at the endpoint that comes with them
RECURSIVE neighbour_entries(_, _)
neighbour_entries(d, ids) ==
    IF ids = <<>> THEN <<>>
    ELSE IF Head(ids) = d.id \/ ~is_allowed(d, Head(ids)) THEN neighbour_entries(d, Tail(ids))
    ELSE <<NodeEntry_new(Head(ids), 1)>> \o neighbour_entries(d, Tail(ids))

\* on_neighbours, of a packet that lists the nodes of ids
on_neighbours(d, node_id, ids, now) ==
    LET request == d.finding_nodes[node_id]
        nodes_count == Len(ids)
        expected == request.some /\ request.response_count + nodes_count <= BUCKET_SIZE
        counted == IF expected THEN [request EXCEPT !.response_count = @ + nodes_count]
                   ELSE request
        d1 == [d EXCEPT !.finding_nodes[node_id] =
                  IF request.some /\ counted.response_count = BUCKET_SIZE THEN NoFind
                  ELSE counted]
    IN IF ~expected THEN DRes(d1, "Ok")
       ELSE add_node_list(d1, neighbour_entries(d1, ids), now)

\* expire_node_request: the entry of the node backs off, and is removed once
\* it failed REQUEST_BACKOFF.len() times
expire_node_request(d, node_id, now) ==
    LET id_hash == keccak_id(node_id)
        dist == distance(d.id_hash, id_hash)
        bucket == d.buckets[dist]
        index == hash_position_from(bucket, id_hash, 1)
    IN IF dist = -1 THEN DRes(d, "Panic")
       ELSE IF index = 0 THEN DRes(d, "Ok")
       ELSE IF bucket[index].fail_count < Len(REQUEST_BACKOFF)
       THEN DRes([d EXCEPT !.buckets[dist][index] =
                     [@ EXCEPT !.backoff_until = now + REQUEST_BACKOFF[bucket[index].fail_count + 1],
                               !.fail_count = @ + 1]], "Ok")
       ELSE DRes([d EXCEPT !.buckets[dist] =
                     SubSeq(bucket, 1, index - 1) \o SubSeq(bucket, index + 1, Len(bucket))], "Ok")

RECURSIVE expire_all(_, _, _)
expire_all(r, nodes_to_expire, now) ==
    IF nodes_to_expire = <<>> \/ r.res # "Ok" THEN r
    ELSE expire_all(expire_node_request(r.d, Head(nodes_to_expire), now),
                    Tail(nodes_to_expire), now)

\* The ids of a set in a sequence, in their order
RECURSIVE ids_from(_, _)
ids_from(ids, n) ==
    IF n > NodeCount + 1 THEN <<>>
    ELSE (IF n \in ids THEN <<n>> ELSE <<>>) \o ids_from(ids, n + 1)

\* clear_expired: the requests older than their timeout are dropped, and
\* the pings and the find requests with answered unset among them expire
\* their node
clear_expired(d, time) ==
    LET pings == {n \in NodeIds : d.pinging_nodes[n].some
                                  /\ time - d.pinging_nodes[n].send_at > PING_TIMEOUT}
        finds == {n \in NodeIds : d.finding_nodes[n].some
                                  /\ time - d.finding_nodes[n].sent_at > FIND_NODE_TIMEOUT}
        unanswered == {n \in finds : ~d.finding_nodes[n].answered}
        d1 == [d EXCEPT !.pinging_nodes = [n \in NodeIds |-> IF n \in pings THEN NoPing ELSE @[n]],
                        !.finding_nodes = [n \in NodeIds |-> IF n \in finds THEN NoFind ELSE @[n]]]
    IN expire_all(DRes(d1, "Ok"), ids_from(pings, 0) \o ids_from(unanswered, 0), time)

\* update_new_nodes
RECURSIVE update_new_nodes(_, _)
update_new_nodes(d, now) ==
    IF map_len(d.pinging_nodes) < MAX_NODES_PING /\ d.to_add # <<>>
    THEN LET r == try_ping([d EXCEPT !.to_add = SubSeq(@, 1, Len(@) - 1)],
                           d.to_add[Len(d.to_add)], PingReason_Default, now)
         IN IF r.res # "Ok" THEN r ELSE update_new_nodes(r.d, now)
    ELSE DRes(d, "Ok")

\* NearestBucketsItem: Ord is by distance to the target, then by hash
NearestBucketsItem_new(target_hash, entry) ==
    [dis |-> distance(target_hash, entry.id_hash), id_hash |-> entry.id_hash, node |-> entry.node]

item_le(a, b) == a.dis < b.dis \/ (a.dis = b.dis /\ a.id_hash <= b.id_hash)

\* BinaryHeap, a max-heap in a vector: sift_up of the element at pos (from 0)
RECURSIVE sift_up(_, _)
sift_up(data, pos) ==
    LET parent == (pos - 1) \div 2
    IN IF pos = 0 \/ item_le(data[pos + 1], data[parent + 1]) THEN data
       ELSE sift_up([data EXCEPT ![pos + 1] = data[parent + 1], ![parent + 1] = data[pos + 1]],
                    parent)

heap_push(data, item) == sift_up(Append(data, item), Len(data))

\* sift_down_to_bottom: the element at pos goes down along the greater
\* children to a leaf, then up again
RECURSIVE sift_down_to_bottom(_, _)
sift_down_to_bottom(data, pos) ==
    LET end == Len(data)
        child == 2 * pos + 1
        greater == IF child + 1 < end /\ item_le(data[child + 1], data[child + 2])
                   THEN child + 1 ELSE child
    IN IF child >= end THEN sift_up(data, pos)
       ELSE sift_down_to_bottom([data EXCEPT ![pos + 1] = data[greater + 1],
                                             ![greater + 1] = data[pos + 1]], greater)

\* BinaryHeap::pop: the last element takes the place of the greatest
heap_pop(data) ==
    IF Len(data) <= 1 THEN <<>>
    ELSE sift_down_to_bottom(<<data[Len(data)]>> \o SubSeq(data, 2, Len(data) - 1), 0)

\* NearestBucketsFinder::push
finder_push(nodes, target_hash, entry) ==
    LET item == NearestBucketsItem_new(target_hash, entry)
    IN IF item.dis = -1 THEN nodes
       ELSE IF Len(nodes) < BUCKET_SIZE THEN heap_push(nodes, item)
       ELSE IF ~item_le(nodes[1], item) THEN heap_push(heap_pop(nodes), item)
       ELSE nodes

\* closest_node: every entry of every bucket is pushed, bucket after bucket
\* and from the front of each; the result is the vector of the heap, which
\* never holds more than BUCKET_SIZE items
RECURSIVE closest_in_bucket(_, _, _, _)
closest_in_bucket(nodes, target_hash, bucket, i) ==
    IF i > Len(bucket) \/ Len(nodes) > BUCKET_SIZE THEN nodes
    ELSE closest_in_bucket(finder_push(nodes, target_hash, bucket[i]), target_hash, bucket, i + 1)

\* The loop over the buckets, of which dists are those left that hold entries
RECURSIVE closest_from(_, _, _, _)
closest_from(nodes, d, target_hash, dists) ==
    IF dists = {} \/ Len(nodes) > BUCKET_SIZE THEN nodes
    ELSE LET dist == CHOOSE x \in dists : \A y \in dists : x <= y
         IN closest_from(closest_in_bucket(nodes, target_hash, d.buckets[dist], 1),
                         d, target_hash, dists \ {dist})

closest_node(d, target) ==
    LET nodes == closest_from(<<>>, d, keccak_id(target),
                              {dist \in DOMAIN d.buckets : d.buckets[dist] # <<>>})
    IN IF nodes = <<>> THEN <<>> ELSE [i \in 1..Len(nodes) |-> nodes[i].node]

\* start_discovery, with the id randomize draws
start_discovery(d, random) ==
    [d EXCEPT !.discovery_round = 0, !.discovery_id = random, !.discovery_nodes = {}]

stop_discovery(d) == [d EXCEPT !.discovery_round = -1, !.discovery_nodes = {}]

\* The first ALPHA nodes of nearest that discovery did not ask yet
RECURSIVE take_unasked(_, _, _)
take_unasked(nearest, asked, n) ==
    IF nearest = <<>> \/ n = 0 THEN <<>>
    ELSE IF Head(nearest).id \in asked THEN take_unasked(Tail(nearest), asked, n)
    ELSE <<Head(nearest)>> \o take_unasked(Tail(nearest), asked, n - 1)

RECURSIVE find_nodes(_, _, _, _)
find_nodes(d, target, nearest, now) ==
    IF nearest = <<>> THEN d
    ELSE find_nodes([find_node(d, target, Head(nearest), now).d
                        EXCEPT !.discovery_nodes = @ \cup {Head(nearest).id}],
                    target, Tail(nearest), now)

\* discover
discover(d, random, now) ==
    LET nearest == take_unasked(closest_node(d, d.discovery_id), d.discovery_nodes, ALPHA)
    IN IF d.discovery_round = -1 THEN d
       ELSE IF d.discovery_round = DISCOVERY_MAX_STEPS THEN stop_discovery(d)
       ELSE IF nearest = <<>> THEN start_discovery(d, random)
       ELSE [find_nodes(d, d.discovery_id, nearest, now)
                EXCEPT !.discovery_round = d.discovery_round + 1]

\* refresh
refresh(d, random) == IF d.discovery_round = -1 THEN start_discovery(d, random) ELSE d

\* round
round(d, random, now) ==
    LET cleared == clear_expired(d, now)
        added == update_new_nodes(cleared.d, now)
    IN IF cleared.res # "Ok" THEN cleared
       ELSE IF added.res # "Ok" THEN added
       ELSE IF added.d.discovery_round # -1 THEN DRes(discover(added.d, random, now), "Ok")
       ELSE IF map_len(added.d.pinging_nodes) = 0 /\ ~added.d.discovery_initiated
       THEN DRes(refresh([added.d EXCEPT !.discovery_initiated = TRUE], random), "Ok")
       ELSE DRes(added.d, "Ok")

(***************************************************************************)
(* The trie as a state machine: one Trie, created by Trie::new and driven  *)
(* by try_update, try_delete and commit.  A panic ends the run.            *)
(*                                                                         *)
(* History variables, none of them read by the operations:                 *)
(*   replay     the Trie that received the same try_update and try_delete  *)
(*              calls and no commit; ok is FALSE once a call on it         *)
(*              panicked                                                   *)
(*   model      the mapping the calls that returned Ok describe; <<>> is   *)
(*              "no value"                                                 *)
(*   last       the last call, what it returned, the trie and the events   *)
(*              before it, and the call before it with the root it gave    *)
(*   seen       the kinds of event of the run so far: "commit", "err" (a   *)
(*              call returned an Err), "delete" (a call was a delete)      *)
(***************************************************************************)
(*                                                                         *)
(* compact holds two calls of hex_to_compact outside the trie: the nibble  *)
(* sequences and the outputs.                                              *)
VARIABLES trie, panicked, nops, replay, model, last, seen, compact

trie_vars == <<trie, panicked, nops, replay, model, last, seen, compact>>

(***************************************************************************)
(* The interpreter as a state machine: one Interpreter, created by         *)
(* Interpreter::new for a code and the gas of the call parameters, and     *)
(* run by exec with an Ext whose schedule() is schedule.  result is        *)
(* "Running" inside the loop of exec, then what exec returned: "Ok" for an *)
(* Ok(gas_left), the Error of an Err, or "Panic".  gas_left is the GasLeft *)
(* of an Ok.                                                               *)
(*                                                                         *)
(* History variables, not read by the interpreter:                         *)
(*   stepped    the last step: its opcode byte (-1 when there is none),    *)
(*              instruction and position, the depth and the top three      *)
(*              words of the stack, the memory and the consumed gas before *)
(*              it, the gas it required, and what it returned              *)
(*   written    the offsets of the memory bytes the steps so far wrote     *)
(* ext is the Ext that exec is called with; its field calls, the calls of  *)
(* the last step in their order, is history as well.                       *)
(***************************************************************************)
(*                                                                         *)
(* gas_call is the last call of GasMeter::gas_call_or_create, which no     *)
(* instruction of the interpreter makes: the gas the meter had consumed,   *)
(* the divisor of the schedule, the arguments and what it returned.        *)
VARIABLES interpreter, schedule, result, gas_left, stepped, written, ext, gas_call

evm_vars == <<interpreter, schedule, result, gas_left, stepped, written, ext, gas_call>>

(***************************************************************************)
(* One RLPStream as a state machine: created by RLPStream::new and written *)
(* by begin_list, append, append_empty and append_raw.                     *)
(*                                                                         *)
(* History variables, not read by the stream:                              *)
(*   stream_nops  the number of calls so far                               *)
(*   items        the items the calls appended, as the lists they form:    *)
(*                done is the encoding of the items outside every open     *)
(*                list; open holds, outermost first, each open list's      *)
(*                declared length n, the number of items it has and        *)
(*                their encodings (payload)                                *)
(*   stream_last  the last call and the number of lists open before it     *)
(***************************************************************************)
VARIABLES stream, stream_nops, items, stream_last

(***************************************************************************)
(* The calls that encode or decode one value on a stream of their own:     *)
(* codec is the last of them, with its input (in), the bytes of the        *)
(* stream or the bytes decoded (out), for a decoder the payload the bytes  *)
(* were made of, and the value decoded (res, val).                         *)
(***************************************************************************)
VARIABLES codec

rlp_vars == <<stream, stream_nops, items, stream_last, codec>>

(***************************************************************************)
(* src/collator/src/worker.rs: one CollatorWorker with a DefaultCollator,  *)
(* the thread started by start(), and a sender as in collator_works.       *)
(*   block_size     the block size the worker was created with             *)
(*   executable_rx  the messages sent to the worker and not yet received   *)
(*   block_tx       the messages the worker sent downstream, in order      *)
(*   collator       the executables of the DefaultCollator                 *)
(*   worker         "none" without a worker, "running" inside the loop of  *)
(*                  the thread, "done" after its break                     *)
(*                                                                         *)
(* History variables, not read by the worker:                              *)
(*   jobs_sent      the number of Jobs sent; the jobs are 1..jobs_sent     *)
(*   terminate_sent whether Terminate was sent                             *)
(*   timeouts       the number of receives that timed out                  *)
(***************************************************************************)
VARIABLES block_size, executable_rx, block_tx, collator, worker,
          jobs_sent, terminate_sent, timeouts

collator_vars == <<block_size, executable_rx, block_tx, collator, worker,
                   jobs_sent, terminate_sent, timeouts>>

(***************************************************************************)
(* The discovery service as a state machine: one DiscoveryInner, created   *)
(* by DiscoveryInner::new and driven by the loop of Discovery::start with  *)
(* the packets of the socket, the requests and the two intervals.  clock   *)
(* is the time of Instant::now(): a call that changes the table takes a    *)
(* millisecond, and Tick lets TickMillis pass.                             *)
(*                                                                         *)
(* History variables, not read by the service:                             *)
(*   disc_last  the last call: its kind, the node it is about, whether the *)
(*              Pong echoed the hash of the pending Ping, what the call    *)
(*              returned, and the table and the replied nodes before it    *)
(*   disc_env   the number of AddNode requests, rounds, FindNode requests  *)
(*              and ticks so far, and replied, the nodes whose pending     *)
(*              FindNode request had a Neighbours reply accepted within    *)
(*              FIND_NODE_TIMEOUT                                          *)
(***************************************************************************)
VARIABLES discovery, clock, disc_last, disc_env

discovery_vars == <<discovery, clock, disc_last, disc_env>>

vars == <<trie, panicked, nops, replay, model, last, seen, compact,
          interpreter, schedule, result, gas_left, stepped, written, ext, gas_call,
          stream, stream_nops, items, stream_last, codec,
          block_size, executable_rx, block_tx, collator, worker,
          jobs_sent, terminate_sent, timeouts,
          discovery, clock, disc_last, disc_env>>

\* Message
Message_Job(e) == [tag |-> "Job", job |-> e, batch |-> <<>>]
Message_Executable(v) == [tag |-> "Executable", job |-> 0, batch |-> v]
Message_Terminate == [tag |-> "Terminate", job |-> 0, batch |-> <<>>]

\* CollatorWorker::new with DefaultCollator::new() and new channels, in the
\* state which (none, or running after start())
NewWorker(size, which) ==
    /\ block_size = size
    /\ executable_rx = <<>>
    /\ block_tx = <<>>
    /\ collator = <<>>
    /\ worker = which
    /\ jobs_sent = 0
    /\ terminate_sent = FALSE
    /\ timeouts = 0

\* No worker was created.
NoWorker == NewWorker(0, "none")

NoEvent == [op |-> "none", node |-> 0, echoed |-> FALSE, res |-> "Ok",
            pre |-> DiscoveryInner_new, replied |-> {}, at |-> 0]

\* DiscoveryInner::new
NoDiscovery ==
    /\ discovery = DiscoveryInner_new
    /\ clock = 0
    /\ disc_last = NoEvent
    /\ disc_env = [added |-> 0, rounds |-> 0, finds |-> 0, replies |-> 0, ticks |-> 0,
                   replied |-> {}]

NoCodec == [op |-> "none", in |-> <<>>, out |-> <<>>, payload |-> <<>>,
            res |-> "None", val |-> <<>>]

\* RLPStream::new
NewStream ==
    /\ stream = RLPStream_new
    /\ stream_nops = 0
    /\ items = [done |-> <<>>, open |-> <<>>]
    /\ stream_last = [op |-> "new", open |-> 0]
    /\ codec = NoCodec

\* src/vm/src/return_data.rs: GasLeft; tag "None" while exec has returned no Ok
GasLeft_None == [tag |-> "None", gas_left |-> 0, data |-> <<>>, apply_state |-> FALSE]
GasLeft_Known(gas) == [tag |-> "Known", gas_left |-> gas, data |-> <<>>, apply_state |-> FALSE]

NoStep == [byte |-> -1, instruction |-> "None", position |-> 0, depth |-> 0,
           top |-> 0, next |-> 0, third |-> 0, memory |-> <<>>,
           total_before |-> 0, required |-> 0, res |-> "None",
           needs_mem |-> FALSE, mem_charged |-> 0, words_prev |-> 0, words |-> 0,
           mem_size |-> 0, storage |-> <<>>, calls |-> <<>>]

NoGasCall == [called |-> FALSE, current_gas |-> 0, divisor |-> [tag |-> "None", val |-> 0],
              needed |-> 0, requested |-> [tag |-> "None", val |-> 0],
              res |-> [tag |-> "Ok", gas |-> 0]]

\* No interpreter was created.
NoInterpreter ==
    /\ interpreter = Interpreter_new(<<>>, 0)
    /\ schedule = Schedule_default
    /\ result = "None"
    /\ gas_left = GasLeft_None
    /\ stepped = NoStep
    /\ written = {}
    /\ ext = Ext_new
    /\ gas_call = NoGasCall

NoCall == [op |-> "none", key |-> <<>>, val |-> <<>>, res |-> "Ok", h |-> H256_default,
           pre |-> Trie_new, seen |-> {}, prev_op |-> "none", prev_h |-> H256_default]

\* The record of a call that returned res (and, for commit, the root h).
Call(op, k, v, res, h) ==
    [op |-> op, key |-> k, val |-> v, res |-> res, h |-> h,
     pre |-> trie, seen |-> seen, prev_op |-> last.op, prev_h |-> last.h]

NoCompact == [called |-> FALSE, hex |-> <<>>, out |-> <<>>, other |-> <<>>,
              other_out |-> <<>>]

\* Trie::new
NewTrie ==
    /\ trie = Trie_new
    /\ panicked = FALSE
    /\ nops = 0
    /\ replay = [t |-> Trie_new, ok |-> TRUE]
    /\ model = [k \in Keys |-> <<>>]
    /\ last = NoCall
    /\ seen = {}
    /\ compact = NoCompact

Init == NewTrie /\ NoInterpreter /\ NewStream /\ NoWorker /\ NoDiscovery

\* The same call on the replayed trie.
Replayed(r) == IF replay.ok THEN [t |-> r.t, ok |-> r.res # "Panic"] ELSE replay

\* trie.try_update(k, v)
Update(k, v) ==
    /\ ~panicked
    /\ nops < MaxOps
    /\ LET r == try_update(trie, k, v)
       IN /\ trie' = r.t
          /\ panicked' = (r.res = "Panic")
          /\ model' = IF r.res = "Ok" THEN [model EXCEPT ![k] = v] ELSE model
          /\ last' = Call(IF v = <<>> THEN "delete" ELSE "update", k, v, r.res, H256_default)
          /\ seen' = seen \cup (IF v = <<>> THEN {"delete"} ELSE {})
                          \cup (IF r.res \notin {"Ok", "Panic"} THEN {"err"} ELSE {})
    /\ replay' = Replayed(try_update(replay.t, k, v))
    /\ nops' = nops + 1
    /\ UNCHANGED compact
    /\ UNCHANGED evm_vars
    /\ UNCHANGED rlp_vars
    /\ UNCHANGED collator_vars
    /\ UNCHANGED discovery_vars

\* trie.try_delete(k)
Delete(k) ==
    /\ ~panicked
    /\ nops < MaxOps
    /\ LET r == try_delete(trie, k)
       IN /\ trie' = r.t
          /\ panicked' = (r.res = "Panic")
          /\ model' = IF r.res = "Ok" /\ k \in Keys THEN [model EXCEPT ![k] = <<>>] ELSE model
          /\ last' = Call("delete", k, <<>>, r.res, H256_default)
          /\ seen' = seen \cup {"delete"}
                          \cup (IF r.res \notin {"Ok", "Panic"} THEN {"err"} ELSE {})
    /\ replay' = Replayed(try_delete(replay.t, k))
    /\ nops' = nops + 1
    /\ UNCHANGED compact
    /\ UNCHANGED evm_vars
    /\ UNCHANGED rlp_vars
    /\ UNCHANGED collator_vars
    /\ UNCHANGED discovery_vars

\* trie.commit()
Commit ==
    /\ ~panicked
    /\ nops < MaxOps
    /\ LET r == commit(trie)
       IN /\ trie' = r.t
          /\ panicked' = (r.res = "Panic")
          /\ last' = Call("commit", <<>>, <<>>, r.res, r.h)
    /\ seen' = seen \cup {"commit"}
    /\ nops' = nops + 1
    /\ UNCHANGED <<replay, model, compact>>
    /\ UNCHANGED evm_vars
    /\ UNCHANGED rlp_vars
    /\ UNCHANGED collator_vars
    /\ UNCHANGED discovery_vars

Next ==
    \/ \E k \in Keys, v \in Values : Update(k, v)
    \/ \E k \in Keys \cup AbsentKeys : Delete(k)
    \/ Commit

Spec == Init /\ [][Next]_vars

\* hex_to_compact(hex) and hex_to_compact(other)
HexToCompact ==
    /\ ~compact.called
    /\ \E hex \in NibbleSeqs, other \in NibbleSeqs :
          compact' = [called |-> TRUE, hex |-> hex, out |-> hex_to_compact(hex),
                      other |-> other, other_out |-> hex_to_compact(other)]
    /\ UNCHANGED <<trie, panicked, nops, replay, model, last, seen>>
    /\ UNCHANGED evm_vars
    /\ UNCHANGED rlp_vars
    /\ UNCHANGED collator_vars
    /\ UNCHANGED discovery_vars

EncodingNext == HexToCompact

EncodingSpec == Init /\ [][EncodingNext]_vars

\* Interpreter::new(code, action_param) with action_param.gas = gas
Created(codes) ==
    /\ NewTrie
    /\ NewStream
    /\ NoWorker
    /\ NoDiscovery
    /\ \E code \in codes, gas \in GasValues : interpreter = Interpreter_new(code, gas)
    /\ schedule \in {Schedule_new, Schedule_default, Schedule_eip1283}
    /\ result = "Running"
    /\ gas_left = GasLeft_None
    /\ stepped = NoStep
    /\ written = {}
    /\ ext = Ext_new
    /\ gas_call = NoGasCall

EvmInit == Created(Codes)

\* What the step is about to do, for stepped: needs_mem when its requirement
\* is Mem, mem_charged the growth of current_mem_gas, words_prev and words the
\* largest word count of the Mem requirements before and with this step.
Stepping(r) ==
    LET pos == interpreter.position
        instruction == IF pos < Len(interpreter.code)
                       THEN Instruction_from_u8(interpreter.code[pos + 1]) ELSE "None"
        n == Len(interpreter.stack)
        req == IF instruction = "None"
               THEN [kind |-> "Panic", gas |-> 0, mem_gas |-> 0, mem_size |-> 0]
               ELSE instruction_requirement(instruction, schedule, interpreter.stack)
        after == r.m
    IN [byte |-> IF pos < Len(interpreter.code) THEN interpreter.code[pos + 1] ELSE -1,
        instruction |-> instruction, position |-> pos, depth |-> n,
        top |-> IF n >= 1 THEN interpreter.stack[n] ELSE 0,
        next |-> IF n >= 2 THEN interpreter.stack[n - 1] ELSE 0,
        third |-> IF n >= 3 THEN interpreter.stack[n - 2] ELSE 0,
        memory |-> interpreter.memory,
        total_before |-> total_gas(interpreter.gas_meter),
        required |-> req.gas + req.mem_gas, res |-> r.res,
        needs_mem |-> req.kind = "Mem",
        mem_charged |-> after.gas_meter.current_mem_gas
                        - interpreter.gas_meter.current_mem_gas,
        words_prev |-> stepped.words,
        words |-> IF req.kind = "Mem" /\ to_word_size(req.mem_size) > stepped.words
                  THEN to_word_size(req.mem_size) ELSE stepped.words,
        mem_size |-> req.mem_size,
        storage |-> ext.storage, calls |-> r.ext.calls]

\* The offsets of the memory bytes a step that completed wrote: the 32 of
\* the word of MSTORE, the bytes of the slice of CODECOPY.
WrittenBy(st) ==
    IF st.res \notin {"Continue", "Success"} THEN {}
    ELSE CASE st.instruction = "MSTORE" -> st.top..(st.top + 31)
           [] st.instruction = "CODECOPY" -> st.top..(st.top + st.third - 1)
           [] OTHER -> {}

\* One turn of the loop of exec: step, and the return of exec when the step
\* does not continue.
Step ==
    /\ result = "Running"
    /\ total_gas(interpreter.gas_meter) <= GasCap
    /\ Len(interpreter.stack) < MaxStack
    /\ \E fails \in ExtFailures :
       \E r \in {step(interpreter, schedule, [ext EXCEPT !.calls = <<>>], fails)} :
       \E st \in {Stepping(r)} :
          /\ interpreter' = r.m
          /\ ext' = r.ext
          /\ result' = CASE r.res = "Continue" -> "Running"
                          [] r.res \in {"Success", "Returned"} -> "Ok"
                          [] OTHER -> r.res
          /\ gas_left' = IF r.res \in {"Success", "Returned"} THEN GasLeft_Known(0)
                         ELSE GasLeft_None
          /\ stepped' = st
          /\ written' = written \cup WrittenBy(st)
    /\ UNCHANGED <<schedule, gas_call>>
    /\ UNCHANGED trie_vars
    /\ UNCHANGED rlp_vars
    /\ UNCHANGED collator_vars
    /\ UNCHANGED discovery_vars

EvmNext == Step

EvmSpec == EvmInit /\ [][EvmNext]_vars

\* exec is a loop: it steps as long as no step returns.
EvmFairSpec == Created(FairCodes) /\ [][EvmNext]_vars /\ WF_vars(Step)

\* gas_call_or_create(schedule, needed, requested) on a meter that consumed
\* current_gas, under a schedule with the divisor
GasCallOrCreate ==
    /\ ~gas_call.called
    /\ \E current_gas \in GasArgs, needed \in GasArgs, requested \in GasRequests,
          divisor \in CapDivisors :
          gas_call' = [called |-> TRUE, current_gas |-> current_gas, divisor |-> divisor,
                       needed |-> needed, requested |-> requested,
                       res |-> gas_call_or_create(
                                   [GasMeter_new(0) EXCEPT !.current_gas = current_gas],
                                   [Schedule_new EXCEPT !.sub_gas_cap_divisor = divisor],
                                   needed, requested)]
    /\ UNCHANGED <<interpreter, schedule, result, gas_left, stepped, written, ext>>
    /\ UNCHANGED trie_vars
    /\ UNCHANGED rlp_vars
    /\ UNCHANGED collator_vars
    /\ UNCHANGED discovery_vars

GasNext == GasCallOrCreate

GasSpec == Init /\ [][GasNext]_vars

\* The lists of items after one more item, of encoding bytes: it is the next
\* item of the innermost open list, and a list that has its n items is
\* closed and is, with its header, one item of what encloses it.
RECURSIVE ItemAppended(_, _)
ItemAppended(it, bytes) ==
    IF it.open = <<>> THEN [it EXCEPT !.done = it.done \o bytes]
    ELSE LET d == Len(it.open)
             l == it.open[d]
             payload == l.payload \o bytes
         IN IF l.count + 1 = l.n
            THEN ItemAppended([it EXCEPT !.open = SubSeq(it.open, 1, d - 1)],
                              encode_length(Len(payload), LIST_OFFSET) \o payload)
            ELSE [it EXCEPT !.open[d] = [l EXCEPT !.count = l.count + 1,
                                                  !.payload = payload]]

\* The encoding of a byte string as one item
ItemOf(bytes) == write_iter(RLPStream_new, bytes).data

\* A call on the stream that left it as s and the lists of items as it.
StreamCall(op, s, it) ==
    /\ ~stream.panicked
    /\ stream_nops < MaxStreamOps
    /\ stream' = s
    /\ items' = it
    /\ stream_nops' = stream_nops + 1
    /\ stream_last' = [op |-> op, open |-> Len(stream.appending_list)]
    /\ UNCHANGED codec
    /\ UNCHANGED trie_vars
    /\ UNCHANGED evm_vars
    /\ UNCHANGED collator_vars
    /\ UNCHANGED discovery_vars

\* stream.begin_list(len)
BeginList(len) ==
    StreamCall("begin_list", begin_list(stream, len),
               IF len = 0 THEN ItemAppended(items, <<LIST_OFFSET>>)
               ELSE [items EXCEPT !.open = Append(items.open,
                                                  [n |-> len, count |-> 0, payload |-> <<>>])])

\* stream.append(&bytes)
AppendValue(bytes) ==
    StreamCall("append", append(stream, bytes), ItemAppended(items, ItemOf(bytes)))

\* stream.append_empty()
AppendEmpty ==
    StreamCall("append_empty", append_empty(stream), ItemAppended(items, <<STR_OFFSET>>))

\* stream.append_raw(raw)
AppendRaw(raw) ==
    StreamCall("append_raw", append_raw(stream, [data |-> raw, refs |-> <<>>]),
               ItemAppended(items, raw))

RlpNext ==
    \/ \E len \in 0..MaxListLen : BeginList(len)
    \/ \E bytes \in StreamValues : AppendValue(bytes)
    \/ AppendEmpty
    \/ \E raw \in StreamRaws : AppendRaw(raw)

RlpSpec == Init /\ [][RlpNext]_vars

\* The byte strings, the payloads handed to the decoders and the integers.
Strings == { [i \in 1..len |-> b] : len \in 0..MaxStringLen, b \in StringBytes }
DecoderPayloads ==
    { <<first>> \o [i \in 1..(len - 1) |-> rest] :
          len \in 1..MaxPayloadLen, first \in {0, 1, 255}, rest \in {0, 255} }
    \cup { <<>>, [i \in 1..56 |-> 0] }
U8Values == { <<x>> : x \in 0..255 }
U64Values ==
    { ([i \in 1..(size_of_u64 - len) |-> 0] \o <<first>>) \o [i \in 1..(len - 1) |-> rest] :
          len \in 1..size_of_u64, first \in IntegerBytes, rest \in {0, 255} }
    \cup { [i \in 1..size_of_u64 |-> 0] }

\* A call on a stream or an Rlp of its own, the one call of the run.
CodecCall(op, in, out, payload, decoded) ==
    /\ codec' = [op |-> op, in |-> in, out |-> out, payload |-> payload,
                 res |-> decoded.res, val |-> decoded.val]
    /\ UNCHANGED <<stream, stream_nops, items, stream_last>>
    /\ UNCHANGED trie_vars
    /\ UNCHANGED evm_vars
    /\ UNCHANGED collator_vars
    /\ UNCHANGED discovery_vars

\* RLPStream::new().write_iter(bytes), then out()
WriteIter(bytes) ==
    /\ codec.op = "none"
    /\ CodecCall("write_iter", bytes, write_iter(RLPStream_new, bytes).data, <<>>,
                 Decoded(<<>>))

\* RLPStream::new_list(1).append_raw(raw), then out()
AppendList(raw) ==
    /\ codec.op = "none"
    /\ CodecCall("new_list", raw,
                 append_raw(RLPStream_new_list(1), [data |-> raw, refs |-> <<>>]).data,
                 <<>>, Decoded(<<>>))

\* RLPStream::new().append(&x) of a u8, then u8::decode(&Rlp::new(&out))
XcodableU8(x) ==
    /\ codec.op = "none"
    /\ LET out == append_encoded(u_encode(RLPStream_new, x)).data
       IN CodecCall("u8", x, out, <<>>, u8_decode(out))

\* RLPStream::new().append(&x) of a u64, then u64::decode(&Rlp::new(&out))
XcodableU64(x) ==
    /\ codec.op = "none"
    /\ LET out == append_encoded(u_encode(RLPStream_new, x)).data
       IN CodecCall("u64", x, out, <<>>, u64_decode(out))

\* The bytes decoded: the string of a payload, also with the prefix 0x81 for
\* a payload of one byte.
Encodings(payload) ==
    { ItemOf(payload) } \cup (IF Len(payload) = 1 THEN { <<129>> \o payload } ELSE {})

\* u8::decode(&Rlp::new(&rlp))
DecodeU8(payload, rlp) ==
    /\ codec.op = "none"
    /\ CodecCall("decode_u8", rlp, rlp, payload, u8_decode(rlp))

\* u64::decode(&Rlp::new(&rlp))
DecodeU64(payload, rlp) ==
    /\ codec.op = "none"
    /\ CodecCall("decode_u64", rlp, rlp, payload, u64_decode(rlp))

CodecNext ==
    \/ \E bytes \in Strings : WriteIter(bytes)
    \/ \E len \in 0..MaxStringLen : AppendList([i \in 1..len |-> STR_OFFSET])
    \/ \E x \in U8Values : XcodableU8(x)
    \/ \E x \in U64Values : XcodableU64(x)
    \/ \E payload \in DecoderPayloads : \E rlp \in Encodings(payload) : DecodeU8(payload, rlp)
    \/ \E payload \in DecoderPayloads : \E rlp \in Encodings(payload) : DecodeU64(payload, rlp)

CodecSpec == Init /\ [][CodecNext]_vars

(***************************************************************************)
(* The collator worker.  The executables of collator_works are valid       *)
(* (MockedExecutable), so add_executable keeps every one.                  *)
(***************************************************************************)
\* DefaultCollator::add_executable of a valid executable
add_executable(c, executable) == Append(c, executable)

\* DefaultCollator::dump
dump(c) == c

\* DefaultCollator::size
size(c) == Len(c)

\* The end of one turn of the loop: the block is sent when the collator
\* holds block_size executables or more than the block time has elapsed.
Collated(c, tx, elapsed_gt) ==
    IF size(c) = block_size \/ elapsed_gt
    THEN [collator |-> <<>>, block_tx |-> Append(tx, Message_Executable(dump(c)))]
    ELSE [collator |-> c, block_tx |-> tx]

\* tx.send(Message::Job(..)) of the sender, before it sends Terminate
SendJob ==
    /\ worker # "none"
    /\ ~terminate_sent
    /\ jobs_sent < MaxJobs
    /\ jobs_sent' = jobs_sent + 1
    /\ executable_rx' = Append(executable_rx, Message_Job(jobs_sent + 1))
    /\ UNCHANGED <<block_size, block_tx, collator, worker, terminate_sent, timeouts>>
    /\ UNCHANGED <<trie_vars, evm_vars, rlp_vars, discovery_vars>>

\* exe_tx.send(Message::Terminate)
SendTerminate ==
    /\ worker # "none"
    /\ ~terminate_sent
    /\ terminate_sent' = TRUE
    /\ executable_rx' = Append(executable_rx, Message_Terminate)
    /\ UNCHANGED <<block_size, block_tx, collator, worker, jobs_sent, timeouts>>
    /\ UNCHANGED <<trie_vars, evm_vars, rlp_vars, discovery_vars>>

\* A turn of the loop in which recv_timeout returns a Job: whether more
\* than the block time elapsed since the last block is the clock's.
ReceiveJob ==
    /\ worker = "running"
    /\ executable_rx # <<>> /\ Head(executable_rx).tag = "Job"
    /\ \E elapsed_gt \in BOOLEAN :
          LET r == Collated(add_executable(collator, Head(executable_rx).job),
                            block_tx, elapsed_gt)
          IN collator' = r.collator /\ block_tx' = r.block_tx
    /\ executable_rx' = Tail(executable_rx)
    /\ UNCHANGED <<block_size, worker, jobs_sent, terminate_sent, timeouts>>
    /\ UNCHANGED <<trie_vars, evm_vars, rlp_vars, discovery_vars>>

\* A turn of the loop in which recv_timeout returns Terminate: it is sent
\* on and the loop is left.
ReceiveTerminate ==
    /\ worker = "running"
    /\ executable_rx # <<>> /\ Head(executable_rx).tag = "Terminate"
    /\ block_tx' = Append(block_tx, Message_Terminate)
    /\ worker' = "done"
    /\ executable_rx' = Tail(executable_rx)
    /\ UNCHANGED <<block_size, collator, jobs_sent, terminate_sent, timeouts>>
    /\ UNCHANGED <<trie_vars, evm_vars, rlp_vars, discovery_vars>>

\* A turn of the loop in which recv_timeout times out: no message came for
\* the block time, so more than the block time has elapsed.
ReceiveTimeout ==
    /\ worker = "running"
    /\ executable_rx = <<>>
    /\ timeouts < MaxTimeouts
    /\ timeouts' = timeouts + 1
    /\ LET r == Collated(collator, block_tx, TRUE)
       IN collator' = r.collator /\ block_tx' = r.block_tx
    /\ UNCHANGED <<block_size, executable_rx, worker, jobs_sent, terminate_sent>>
    /\ UNCHANGED <<trie_vars, evm_vars, rlp_vars, discovery_vars>>

\* CollatorWorker::new(.., block_size, ..) and start()
CollatorInit ==
    /\ NewTrie /\ NoInterpreter /\ NewStream /\ NoDiscovery
    /\ \E bs \in 0..MaxBlockSize : NewWorker(bs, "running")

CollatorNext ==
    \/ SendJob
    \/ SendTerminate
    \/ ReceiveJob
    \/ ReceiveTerminate
    \/ ReceiveTimeout

CollatorSpec == CollatorInit /\ [][CollatorNext]_vars

\* A call that returned r: the table after it, a millisecond later when it
\* wrote to a bucket (the Instants of the entries of the buckets differ), and
\* the replied nodes that still have their request.  A panic ends the task of
\* the service.
Called(op, node, echoed, r, env) ==
    /\ disc_last.res # "Panic"
    /\ discovery' = r.d
    /\ clock' = IF r.d.buckets # discovery.buckets THEN clock + 1 ELSE clock
    /\ disc_last' = [op |-> op, node |-> node, echoed |-> echoed, res |-> r.res,
                     pre |-> discovery, replied |-> disc_env.replied, at |-> clock]
    /\ disc_env' = [env EXCEPT !.replied =
                       {n \in @ : /\ r.d.finding_nodes[n].some
                                  /\ discovery.finding_nodes[n].some
                                  /\ r.d.finding_nodes[n].sent_at
                                       = discovery.finding_nodes[n].sent_at
                                  /\ r.d.finding_nodes[n].response_count
                                       >= discovery.finding_nodes[n].response_count}]
    /\ UNCHANGED <<trie_vars, evm_vars, rlp_vars, collator_vars>>

\* The node that sends packets beside those with a ping pending: the first
Senders == {1}

\* The nodes after the first FreeAdds are added and answer in a burst: until
\* the last of them is added there is no tick,
Burst == disc_env.added > FreeAdds /\ disc_env.added < BUCKET_SIZE + 1

\* and from the first of them on no packet but their Pongs and no request
\* but theirs.
Crowded == disc_env.added > FreeAdds

\* handle(Request::AddNode(e)), for the next of the nodes 1 .. BUCKET_SIZE + 1
AddNodeRequest ==
    /\ disc_env.added < BUCKET_SIZE + 1
    /\ map_len(discovery.pinging_nodes) < MaxPinging
    /\ Called("add_node", disc_env.added + 1, FALSE,
              add_node(discovery, NodeEntry_new(disc_env.added + 1, 1), clock),
              [disc_env EXCEPT !.added = @ + 1])

\* on_packet with a Pong of the node, echoing the hash of its pending Ping
\* or another hash
OnPong ==
    \E n \in Senders \cup {m \in NodeIds : discovery.pinging_nodes[m].some},
       echoed \in BOOLEAN, fresh \in BOOLEAN :
        /\ echoed => discovery.pinging_nodes[n].some
        /\ Called("on_pong", n, echoed,
                  on_pong(discovery, n,
                          IF echoed THEN discovery.pinging_nodes[n].hash
                          ELSE [to |-> 0, expiry |-> 0], fresh, clock),
                  disc_env)

\* on_packet with a Ping of the last node
OnPing ==
    \E endpoint \in {0, 1}, fresh \in {TRUE} :
        /\ ~Crowded
        /\ map_len(discovery.pinging_nodes) < MaxPinging
        /\ Called("on_ping", NodeCount, FALSE,
                  on_ping(discovery, NodeCount, endpoint, fresh, clock), disc_env)

\* on_packet with a FindNode of the node
OnFindNode ==
    \E n \in Senders, endpoint \in {1, 2}, fresh \in {TRUE} :
        /\ ~Crowded
        /\ map_len(discovery.pinging_nodes) < MaxPinging
        /\ Called("on_find_node", n, FALSE,
                  on_find_node(discovery, n, endpoint, fresh, clock), disc_env)

\* handle(Request::FindNode(target, node))
FindNodeRequest ==
    \E n \in Senders :
        /\ ~Crowded
        /\ disc_env.finds < MaxFinds
        /\ Called("find_node", n, FALSE,
                  find_node(discovery, DiscoveryTarget, NodeEntry_new(n, 1), clock),
                  [disc_env EXCEPT !.finds = @ + 1])

\* The node lists of the Neighbours packets: the node itself once and
\* BUCKET_SIZE times, and the first node
NeighbourLists == { <<SelfId>>, [i \in 1..BUCKET_SIZE |-> SelfId], <<1>> }

\* on_packet with a Neighbours of the node
OnNeighbours ==
    \E n \in Senders, ids \in NeighbourLists :
        LET r == on_neighbours(discovery, n, ids, clock)
            request == discovery.finding_nodes[n]
            accepted == /\ request.some
                        /\ request.response_count + Len(ids) <= BUCKET_SIZE
                        /\ clock - request.sent_at <= FIND_NODE_TIMEOUT
        IN /\ ~Crowded
           /\ disc_env.replies < MaxReplies
           /\ map_len(discovery.pinging_nodes) < MaxPinging
           /\ Called("on_neighbours", n, FALSE, r,
                     [disc_env EXCEPT !.replies = @ + 1,
                                      !.replied = IF accepted THEN @ \cup {n} ELSE @])

\* The tick of round_interval: round
Round ==
    /\ ~Burst
    /\ disc_env.rounds < MaxRounds
    /\ Called("round", 0, FALSE, round(discovery, DiscoveryTarget, clock),
              [disc_env EXCEPT !.rounds = @ + 1])

\* The tick of refresh_interval: refresh
Refresh ==
    /\ ~Burst
    /\ Called("refresh", 0, FALSE, DRes(refresh(discovery, DiscoveryTarget), "Ok"), disc_env)

\* TickMillis milliseconds pass.
Tick ==
    /\ ~Burst
    /\ disc_env.ticks < MaxTicks
    /\ disc_last.res # "Panic"
    /\ clock' = clock + TickMillis
    /\ disc_env' = [disc_env EXCEPT !.ticks = @ + 1]
    /\ UNCHANGED <<discovery, disc_last>>
    /\ UNCHANGED <<trie_vars, evm_vars, rlp_vars, collator_vars>>

DiscoveryNext ==
    \/ AddNodeRequest
    \/ OnPong
    \/ OnPing
    \/ OnFindNode
    \/ FindNodeRequest
    \/ OnNeighbours
    \/ Round
    \/ Refresh
    \/ Tick

DiscoverySpec == Init /\ [][DiscoveryNext]_vars

(***************************************************************************)
(* Properties of the trie.                                                 *)
(***************************************************************************)
\* What try_get is to return for a key, by the mapping of the Ok calls.
Expected(k) == IF model[k] = <<>> THEN Option_None ELSE Option_Some(model[k])

\* The keys the calls that returned Ok have stored.
Stored == {k \in Keys : model[k] # <<>>}

\* C1: from Trie::new, after successful try_update calls with non-empty keys
\* and non-empty values only, try_get of every key returns the value of the
\* most recent try_update for it, and None for a key never inserted.
C1_UpdateGetRoundTrip ==
    (~panicked /\ seen = {}) =>
        /\ \A k \in Keys : try_get(trie, k) = Expected(k)
        /\ \A k \in OtherKeys : try_get(trie, k) = Option_None

\* C1 witness: <<17>> was overwritten while its extension <<17, 17>> and a
\* sibling are stored, in a run of successful try_update calls only.
C1_Witness ==
    /\ ~panicked /\ seen = {}
    /\ last.op = "update" /\ last.key = <<17>> /\ last.val = <<2>>
    /\ try_get(last.pre, <<17>>) = Option_Some(<<1>>)
    /\ try_get(trie, <<17>>) = Option_Some(<<2>>)
    /\ model[<<17, 17>>] # <<>>
    /\ model[<<18>>] # <<>>

\* C2: try_delete of a key that is stored (its value under a Short node or in
\* the terminator slot of a Full node) returns Ok; afterwards try_get of the
\* key returns None and every other key returns what it returned before.
C2_DeleteStoredKey ==
    (/\ last.op = "delete"
     /\ last.seen \cap {"err", "commit"} = {}
     /\ try_get(last.pre, last.key).tag = "Some")
    => /\ last.res = "Ok"
       /\ try_get(trie, last.key) = Option_None
       /\ \A k \in Keys \ {last.key} : try_get(trie, k) = try_get(last.pre, k)

\* The root commit returns for the trie built from Trie::new by one
\* try_update per stored key, in the order of KeySeq.
RECURSIVE Rebuilt(_, _)
Rebuilt(m, i) ==
    IF i = 0 THEN Trie_new
    ELSE IF m[KeySeq[i]] = <<>> THEN Rebuilt(m, i - 1)
    ELSE try_update(Rebuilt(m, i - 1), KeySeq[i], m[KeySeq[i]]).t

RebuiltRoot(m) == commit(Rebuilt(m, Len(KeySeq))).h

\* C3: after successful try_update / try_delete calls on a fresh trie, commit
\* returns the root of the final mapping alone: the root of the trie rebuilt
\* from that mapping, H256::default() when every key inserted was deleted.
C3_RootOfFinalMapping ==
    /\ (~panicked /\ seen \cap {"err", "commit"} = {}) =>
            /\ commit(trie).res = "Ok"
            /\ commit(trie).h = RebuiltRoot(model)
    /\ (last.op = "commit" /\ last.seen \cap {"err", "commit"} = {}) =>
            /\ last.res = "Ok"
            /\ last.h = RebuiltRoot(model)

\* C3 witness: commit returned the root of a trie that still stores a key
\* after a successful delete.
C3_Witness ==
    /\ last.op = "commit" /\ last.res = "Ok"
    /\ last.seen = {"delete"}
    /\ last.prev_op = "delete"
    /\ Stored # {}
    /\ last.h = RebuiltRoot(model)
    /\ last.h # H256_default

\* C4: the root the last commit returns is the root commit returns for the
\* trie that received the same try_update / try_delete calls and no commit.
C4_IntermediateCommits ==
    (/\ last.op = "commit" /\ last.res = "Ok"
     /\ "err" \notin seen
     /\ replay.ok /\ commit(replay.t).res = "Ok")
    => last.h = commit(replay.t).h

\* C5: try_get of every key returns after commit what it returned before.
C5_CommitKeepsContent ==
    (last.op = "commit" /\ last.res = "Ok" /\ "err" \notin seen)
    => \A k \in Keys : try_get(trie, k) = try_get(last.pre, k)

\* C6: a commit that directly follows a commit of a trie that stores a key
\* returns the root that commit returned.
C6_CommitTwice ==
    (/\ last.op = "commit" /\ last.prev_op = "commit"
     /\ "err" \notin seen
     /\ Stored # {})
    => last.h = last.prev_h

\* The store maps the hash h to the bytes it is the keccak-256 of.
StoreMaps(db, h) == \E e \in db : e.key = h /\ e.value = h.pre

\* The node stored under h can be read back from the store, and so can
\* every node its encoding refers to by hash.
RECURSIVE Readable(_, _)
Readable(db, h) ==
    /\ StoreMaps(db, h)
    /\ \A i \in 1..Len(h.pre.refs) : Readable(db, h.pre.refs[i])

\* C12: after commit returned the root h of a trie that holds a key, the
\* store maps h to the encoding of the root node and every node the root
\* refers to by hash, directly or through other nodes, is stored under the
\* hash of its encoding; no hash has two encodings in the store.
C12_CommitWritesThrough ==
    (/\ last.op = "commit" /\ last.res = "Ok"
     /\ \E k \in Keys : try_get(last.pre, k).tag = "Some")
    => /\ last.h # H256_default
       /\ Readable(trie.db, last.h)
       /\ \A e \in trie.db : e.value = e.key.pre

\* C12 witness: commit wrote the root and, under their hashes, a Full node
\* and the leaves below it.
C12_Witness ==
    /\ last.op = "commit" /\ last.res = "Ok"
    /\ try_get(last.pre, <<17>>).tag = "Some"
    /\ last.pre.db = {}
    /\ Cardinality(trie.db) >= 3
    /\ Len(last.h.pre.refs) >= 1
    /\ Readable(trie.db, last.h)

\* C13: try_delete of a non-empty key that is not stored returns
\* Err(KeyNotExists), whatever the trie holds (the empty trie included).
C13_DeleteAbsentKey ==
    (/\ last.op = "delete"
     /\ last.seen \cap {"err", "commit"} = {}
     /\ try_get(last.pre, last.key) = Option_None)
    => last.res = "KeyNotExists"

\* C14: after try_update(k, v) with a non-empty value returned Ok, in any
\* state of the trie, a second identical try_update(k, v) returns Ok and
\* commit then returns the root it returns without the second call.
C14_UpdateTwice ==
    (last.op = "update" /\ last.res = "Ok")
    => LET again == try_update(trie, last.key, last.val)
       IN /\ again.res = "Ok"
          /\ commit(again.t).res = commit(trie).res
          /\ commit(again.t).h = commit(trie).h

(***************************************************************************)
(* Properties of the interpreter.                                          *)
(***************************************************************************)
\* The last step was a JUMP, or a JUMPI with a non-zero condition, that had
\* its operands on the stack; its destination is stepped.top.
Jumped ==
    \/ stepped.instruction = "JUMP" /\ stepped.depth >= 1 /\ fits_usize(stepped.top)
    \/ stepped.instruction = "JUMPI" /\ stepped.depth >= 2 /\ fits_usize(stepped.top)
                                     /\ stepped.next # 0

\* The offsets of the code at which the JUMPDEST opcode stands.
JumpdestOffsets == {pos \in 0..(Len(interpreter.code) - 1) : interpreter.code[pos + 1] = 91}

\* C7: the consumed gas of the meter never decreases over a step and never
\* exceeds the gas of the call parameters; a step whose requirement would
\* take it above makes exec return Err(OutOfGas) and executes nothing.
C7_GasWithinSupplied ==
    /\ total_gas(interpreter.gas_meter) >= stepped.total_before
    /\ total_gas(interpreter.gas_meter) <= interpreter.gas_meter.gas_limit
    /\ (stepped.instruction # "None"
        /\ stepped.total_before + stepped.required > interpreter.gas_meter.gas_limit)
       => result = "OutOfGas"

\* C8: exec returns after finitely many steps, whatever the code and the
\* gas (a run is followed until its consumed gas passes GasCap).
C8_ExecTerminates ==
    <>(result # "Running" \/ total_gas(interpreter.gas_meter) > GasCap)

\* C9: after a JUMP, or a JUMPI with a non-zero condition, that completed
\* without error, the program counter is an offset of the code at which the
\* JUMPDEST opcode stands.
C9_JumpLandsOnJumpdest ==
    (Jumped /\ stepped.res \in {"Continue", "Success"})
    => interpreter.position \in JumpdestOffsets

\* C9 witness: a JUMPI with a non-zero condition was taken to its destination.
C9_Witness ==
    /\ stepped.instruction = "JUMPI" /\ stepped.next # 0
    /\ stepped.res = "Continue" /\ result = "Running"
    /\ interpreter.position = stepped.top
    /\ interpreter.position # stepped.position + 1
    /\ interpreter.code[interpreter.position + 1] = 91

\* C10: a JUMP, or a JUMPI with a non-zero condition, to a destination that
\* is no JUMPDEST offset (one at or beyond the end of the code included)
\* makes exec return Err(InvalidJump); the run ends with that step.
C10_InvalidJumpIsError ==
    (Jumped /\ stepped.top \notin JumpdestOffsets) => result = "InvalidJump"

\* The offsets of the code at which an instruction stands when the code is
\* read from offset pos on: the immediate data of a PUSH is stepped over.
RECURSIVE InstructionOffsetsFrom(_, _)
InstructionOffsetsFrom(code, pos) ==
    IF pos >= Len(code) THEN {}
    ELSE LET instruction == Instruction_from_u8(code[pos + 1])
             data == IF instruction \in {"PUSH1", "PUSH2"}
                     THEN Instruction_data_bytes(instruction) ELSE 0
         IN {pos} \cup InstructionOffsetsFrom(code, pos + 1 + data)

\* The offsets of the code that lie in the immediate data of a PUSH.
PushDataOffsets ==
    (0..(Len(interpreter.code) - 1)) \ InstructionOffsetsFrom(interpreter.code, 0)

\* C11: the recorded jump destinations are offsets at which JUMPDEST stands
\* as an instruction, never offsets in the immediate data of a PUSH, and a
\* JUMPI with a non-zero condition into the immediate data of a PUSH makes
\* exec return Err(InvalidJump).
C11_NoJumpdestInPushData ==
    /\ interpreter.jump_cache.some =>
            interpreter.jump_cache.jump_location \cap PushDataOffsets = {}
    /\ (/\ stepped.instruction = "JUMPI" /\ stepped.depth >= 2 /\ stepped.next # 0
        /\ stepped.top \in PushDataOffsets)
       => result = "InvalidJump"

\* The capacity Interpreter::new creates the stack with, the limit of the
\* stack's depth.
VecStack_capacity == 1024

\* C15: a RETURN whose operands offset and length lie inside the memory
\* makes exec return Ok(GasLeft::NeedsReturn) with apply_state = true and,
\* as data, the length bytes of the memory from offset as they were when
\* RETURN executed.
C15_ReturnGivesData ==
    (/\ stepped.instruction = "RETURN" /\ stepped.depth >= 2
     /\ stepped.top >= 0 /\ stepped.next >= 0
     /\ stepped.top + stepped.next <= Len(stepped.memory))
    => /\ result = "Ok"
       /\ gas_left.tag = "NeedsReturn"
       /\ gas_left.data = SubSeq(stepped.memory, stepped.top + 1, stepped.top + stepped.next)
       /\ gas_left.apply_state

\* C16: when exec returns after a step that completed the code without
\* return data, it returns GasLeft::Known(r) with r the gas of the call
\* parameters less the gas the steps consumed.
C16_KnownGasLeft ==
    (result = "Ok" /\ stepped.res = "Success")
    => gas_left = GasLeft_Known(interpreter.gas_meter.gas_limit
                                - total_gas(interpreter.gas_meter))

\* C17: the stack never holds more than 1024 words; a PUSH on a stack of
\* 1024 words ends the call with a fatal error.
C17_StackLimit ==
    /\ Len(interpreter.stack) <= VecStack_capacity
    /\ (stepped.instruction \in {"PUSH1", "PUSH2"} /\ stepped.depth = VecStack_capacity)
       => result \notin {"Running", "Ok"}

\* C18: every byte of the memory that no MSTORE or CODECOPY step wrote is
\* zero, the bytes added when the memory grew included, and an MLOAD of 32
\* bytes of which none was written completes and pushes the word zero.
C18_UnwrittenMemoryIsZero ==
    /\ \A i \in 0..(Len(interpreter.memory) - 1) :
            i \notin written => interpreter.memory[i + 1] = 0
    /\ (/\ stepped.instruction = "MLOAD" /\ stepped.depth >= 1 /\ stepped.top >= 0
        /\ (stepped.top..(stepped.top + 31)) \cap written = {})
       => /\ stepped.res \in {"Continue", "Success"}
          /\ interpreter.stack[Len(interpreter.stack)] = 0

\* The instructions exec_instruction has an arm for, among those of the
\* model's code bytes.
Implemented ==
    {"PUSH1", "PUSH2", "MSTORE", "JUMPI", "JUMPDEST", "POP", "MLOAD", "SUB", "CODECOPY",
     "ADD", "RETURN"}

\* C19: a step on an opcode byte the interpreter does not implement, a byte
\* that is no opcode included, makes exec return Err(InvalidCommand).
C19_UnknownOpcodeIsError ==
    (stepped.byte # -1 /\ stepped.instruction \notin Implemented)
    => result = "InvalidCommand"

(***************************************************************************)
(* Properties of the RLP stream.                                           *)
(***************************************************************************)
RECURSIVE Payloads(_)
Payloads(open) ==
    IF open = <<>> THEN <<>>
    ELSE Payloads(SubSeq(open, 1, Len(open) - 1)) \o open[Len(open)].payload

\* C20: a list begun with begin_list(n), n > 0, is open as long as fewer
\* than n items were appended to it; with its n-th item its header is put
\* before its payload and the list is one item of the open list around it,
\* which may finish that list in turn.  So after every call the stream's
\* open lists are those that have fewer items than declared, each waiting
\* for the items it lacks, and the stream's bytes are the finished items
\* followed by the payloads of the open lists, outermost first.
C20_ListStaysOpen ==
    /\ ~stream.panicked
    /\ Len(stream.appending_list) = Len(items.open)
    /\ \A i \in 1..Len(items.open) :
          /\ items.open[i].count < items.open[i].n
          /\ stream.appending_list[i][2] = items.open[i].n - items.open[i].count
    /\ stream.data = items.done \o Payloads(items.open)

\* C20 witness: with three lists open, one in the other, an append gave the
\* innermost its last item and finished all three.
C20_Witness ==
    /\ stream_last = [op |-> "append", open |-> 3]
    /\ stream.appending_list = <<>>
    /\ stream.data = <<195, 194, 193, 1>>

(***************************************************************************)
(* Properties of the encodings.                                            *)
(***************************************************************************)
\* The big-endian bytes of a length below 65536
LengthBytes(len) == IF len < 256 THEN <<len>> ELSE <<len \div 256, len % 256>>

\* C21: write_iter of a byte string of length L writes the byte itself when
\* L = 1 and the byte is below 0x80; otherwise 0x80 + L and the bytes when
\* L <= 55; and 0xb7 + n, the n big-endian bytes of L and the bytes when
\* L > 55.
C21_StringPrefix ==
    (codec.op = "write_iter")
    => LET L == Len(codec.in)
       IN codec.out = IF L = 1 /\ codec.in[1] < 128 THEN codec.in
                      ELSE IF L <= 55 THEN <<128 + L>> \o codec.in
                      ELSE (<<183 + Len(LengthBytes(L))>> \o LengthBytes(L)) \o codec.in

\* C22: the header of a list that completes with a payload of P bytes is
\* the byte 0xc0 + P when P <= 55, and 0xf7 + n with the n big-endian bytes
\* of P when P > 55.
C22_ListHeader ==
    (codec.op = "new_list")
    => LET P == Len(codec.in)
       IN codec.out = IF P <= 55 THEN <<192 + P>> \o codec.in
                      ELSE (<<247 + Len(LengthBytes(P))>> \o LengthBytes(P)) \o codec.in

\* C23: for every u8 and every u64 x, zero and the maximum included,
\* decoding the encoding of x returns x.
C23_IntegerRoundTrip ==
    (codec.op \in {"u8", "u64"}) => (codec.res = "Ok" /\ codec.val = codec.in)

\* C23 witness: u64::MAX was encoded as 0x88 and eight bytes 0xff and
\* decoded as u64::MAX.
C23_Witness ==
    /\ codec.op = "u64"
    /\ codec.in = [i \in 1..8 |-> 255]
    /\ codec.out = <<136>> \o [i \in 1..8 |-> 255]
    /\ codec.res = "Ok" /\ codec.val = codec.in

\* The width in bytes of the integer a decoder call decodes
WidthOf(op) == IF op = "decode_u8" THEN 1 ELSE size_of_u64

\* C24 as stated: decoding a u8 or a u64 from a string whose payload begins
\* with a zero byte fails with RlpInvalidIndirection.
C24_LeadingZeroIsIndirection ==
    (/\ codec.op \in {"decode_u8", "decode_u64"}
     /\ codec.payload # <<>> /\ codec.payload[1] = 0)
    => codec.res = "RlpInvalidIndirection"

\* C24 amended: decoding a u8 or a u64 from a string whose payload begins
\* with a zero byte fails, with RlpInvalidIndirection when the payload is no
\* longer than the integer (1 byte for u8, 8 for u64) and with RlpIsTooBig
\* when it is longer; no such string decodes to a value.
C24_LeadingZeroIsRejected ==
    (/\ codec.op \in {"decode_u8", "decode_u64"}
     /\ codec.payload # <<>> /\ codec.payload[1] = 0)
    => codec.res = IF Len(codec.payload) <= WidthOf(codec.op)
                   THEN "RlpInvalidIndirection" ELSE "RlpIsTooBig"

\* C24 witness: a u64 was decoded from the string of the 8 bytes
\* 00 ff ff ff ff ff ff ff and the decoder returned RlpInvalidIndirection.
C24_Witness ==
    /\ codec.op = "decode_u64"
    /\ codec.payload = <<0>> \o [i \in 1..7 |-> 255]
    /\ codec.in = <<136>> \o codec.payload
    /\ codec.res = "RlpInvalidIndirection"

(***************************************************************************)
(* Properties of the collator worker.                                      *)
(***************************************************************************)
\* The number of Executable batches among the first n messages sent
\* downstream that hold the job.
RECURSIVE BatchesWith(_, _)
BatchesWith(job, n) ==
    IF n = 0 THEN 0
    ELSE BatchesWith(job, n - 1)
         + (IF \E i \in 1..Len(block_tx[n].batch) : block_tx[n].batch[i] = job THEN 1 ELSE 0)

\* C25: when the worker has sent Terminate on, every Job sent before
\* Terminate is in exactly one of the Executable batches sent downstream
\* before it, so that the batches hold as many executables as Jobs were
\* sent.
C25_EveryJobForwarded ==
    (worker = "done")
    => /\ block_tx[Len(block_tx)] = Message_Terminate
       /\ \A job \in 1..jobs_sent : BatchesWith(job, Len(block_tx) - 1) = 1

(***************************************************************************)
(* Properties of the trie's nodes.                                         *)
(***************************************************************************)
\* The locations a node holds: the val of a Short node, the children of a
\* Full node.
ChildLocations(node) ==
    CASE node.t = "Short" -> {node.val} \ {NodeLocation_None}
      [] node.t = "Full" ->
            {node.children[i] : i \in 1..Len(node.children)} \ {NodeLocation_None}
      [] OTHER -> {}

\* The locations reached from those of locs in at most n steps.
RECURSIVE ReachedFrom(_, _, _)
ReachedFrom(t, locs, n) ==
    IF n = 0 THEN locs
    ELSE ReachedFrom(t, locs \cup UNION { ChildLocations(Cache_get_node(t, loc)) : loc \in locs },
                     n - 1)

\* The Memory locations reachable from the root location.
Reachable(t) == ReachedFrom(t, {t.root_loc} \ {NodeLocation_None}, Len(t.slots))

\* The indices on the free list of the cache.
FreeIndices(t) == { t.free_indices[i] : i \in 1..Len(t.free_indices) }

\* C26: after any calls of try_update, try_delete and commit that returned,
\* every Memory(index) location reachable from the root location is the
\* index of a slot of the cache that is not on its free list.
C26_ReachableSlotsAreLive ==
    ~panicked => \A index \in Reachable(trie) :
                    index + 1 \in DOMAIN trie.slots /\ index \notin FreeIndices(trie)

\* C27: when try_delete(k) returns Err(KeyNotExists) the trie is unchanged:
\* try_get returns for every key what it returned before the call, and a
\* commit returns the root a commit in place of the call would have
\* returned.
C27_FailedDeleteChangesNothing ==
    (last.op = "delete" /\ last.res = "KeyNotExists")
    => /\ \A k \in Keys : try_get(trie, k) = try_get(last.pre, k)
       /\ commit(trie).res = commit(last.pre).res
       /\ commit(trie).h = commit(last.pre).h

\* The calls so far were try_update and try_delete calls that returned Ok.
OnlySuccessfulUpdates == ~panicked /\ "err" \notin seen /\ "commit" \notin seen

\* The number of children of a Full node that are not NodeLocation::None
NonEmptyChildren(node) ==
    Cardinality({ i \in 1..Len(node.children) : node.children[i] # NodeLocation_None })

\* C28: after successful try_update and try_delete calls every Full node
\* reachable from the root has at least two children that are not empty.
C28_FullNodeHasTwoChildren ==
    OnlySuccessfulUpdates
    => \A index \in Reachable(trie) :
          Cache_get_node(trie, index).t = "Full"
          => NonEmptyChildren(Cache_get_node(trie, index)) >= 2

\* The Full nodes reachable from the root of t.
FullNodes(t) == { index \in Reachable(t) : Cache_get_node(t, index).t = "Full" }

\* C28 witness: a delete of one of the two keys under a Full node took that
\* Full node away and left another Full node in the trie.
C28_Witness ==
    /\ OnlySuccessfulUpdates
    /\ last.op = "delete" /\ last.res = "Ok"
    /\ \E index \in FullNodes(last.pre) :
          NonEmptyChildren(Cache_get_node(last.pre, index)) = 2
    /\ Cardinality(FullNodes(trie)) < Cardinality(FullNodes(last.pre))
    /\ FullNodes(trie) # {}

\* C29: after successful try_update and try_delete calls no Short node
\* reachable from the root has a Short node as its child.
C29_NoShortUnderShort ==
    OnlySuccessfulUpdates
    => \A index \in Reachable(trie) :
          Cache_get_node(trie, index).t = "Short"
          => Cache_get_node(trie, Cache_get_node(trie, index).val).t # "Short"

\* C29 witness: a delete took the Full node between two Short nodes away
\* and left one Short node, with the keys of both, on the value.
C29_Witness ==
    /\ OnlySuccessfulUpdates
    /\ last.op = "delete" /\ last.res = "Ok"
    /\ \E index \in Reachable(last.pre) :
          /\ Cache_get_node(last.pre, index).t = "Short"
          /\ Cache_get_node(last.pre, Cache_get_node(last.pre, index).val).t = "Full"
    /\ Cache_get_node(trie, trie.root_loc).t = "Short"
    /\ Len(Cache_get_node(trie, trie.root_loc).key) >= 3
    /\ Cache_get_node(trie, Cache_get_node(trie, trie.root_loc).val).t = "Value"

\* G_mem(w) = memory_gas * w + w^2 / quad_coeff_div
G_mem(w) == schedule.memory_gas * w + (w * w) \div schedule.quad_coeff_div

\* C30: a step that needs memory of w words is charged the memory gas
\* G_mem(w) - G_mem(w_prev), w_prev the largest word count charged so far,
\* and no memory gas when w does not exceed w_prev (stated of the steps that
\* completed).
C30_MemoryGasIsIncrement ==
    (stepped.needs_mem /\ stepped.res = "Continue" /\ schedule.quad_coeff_div > 0)
    => stepped.mem_charged = G_mem(stepped.words) - G_mem(stepped.words_prev)

\* C31: after a step whose requirement carries the memory size s the memory
\* has the length s when it was shorter and its previous length otherwise
\* (stated of the steps that completed).
C31_MemoryCoversSize ==
    (stepped.needs_mem /\ stepped.res \in {"Continue", "Success"})
    => Len(interpreter.memory) = IF Len(stepped.memory) < stepped.mem_size
                                 THEN stepped.mem_size ELSE Len(stepped.memory)

\* C32: a JUMPI whose condition is zero does not jump and skips nothing: the
\* step completes with the program counter on the byte after the JUMPI
\* opcode, and ends the execution normally when JUMPI is the last byte.
C32_JumpiFallsThrough ==
    (/\ stepped.instruction = "JUMPI"
     /\ stepped.depth >= 2
     /\ stepped.top >= 0
     /\ stepped.next = 0)
    => /\ stepped.res \in {"Continue", "Success"}
       /\ interpreter.position = stepped.position + 1
       /\ stepped.position + 1 = Len(interpreter.code) => stepped.res = "Success"

\* The reference a parent holds to a node with the encoding enc: its hash
\* when enc has 32 bytes or more, else enc itself.
RefOf(enc) ==
    IF Len(enc.data) >= KeccakHasher_LENGTH THEN ChildReference_Hash(KeccakHasher_hash(enc))
    ELSE ChildReference_Inline(enc)

\* The encoding of the Short or Full node at loc in the cache of t.
RECURSIVE EncodingOf(_, _)
EncodingOf(t, loc) ==
    LET node == Cache_get_node(t, loc)
    IN IF node.t = "Short"
       THEN IF Cache_get_node(t, node.val).t = "Value"
            THEN Encoder_value_node(hex_to_compact(node.key), Cache_get_node(t, node.val).v)
            ELSE Encoder_short_node(hex_to_compact(node.key), RefOf(EncodingOf(t, node.val)))
       ELSE Encoder_full_node(
                [i \in 1..CHILD_SIZE |->
                    IF node.children[i] = NodeLocation_None THEN ChildReference_None
                    ELSE IF i = CHILD_SIZE
                    THEN ChildReference_Value(Cache_get_node(t, node.children[i]).v)
                    ELSE RefOf(EncodingOf(t, node.children[i]))])

\* The Short and Full nodes below the root of t.
NonRootNodes(t) ==
    { loc \in Reachable(t) \ {t.root_loc} : Cache_get_node(t, loc).t \in {"Short", "Full"} }

\* The store entry of an encoding: the encoding under its keccak-256 hash.
StoreEntry(enc) == [key |-> KeccakHasher_hash(enc), value |-> enc]

\* What a commit of t writes: the root, and the nodes below it whose
\* encoding has 32 bytes or more.
CommitWrites(t) ==
    {StoreEntry(EncodingOf(t, t.root_loc))}
    \cup { StoreEntry(EncodingOf(t, loc)) :
             loc \in { l \in NonRootNodes(t) :
                          Len(EncodingOf(t, l).data) >= KeccakHasher_LENGTH } }

\* C33: a commit writes the encoding of a node below the root to the store,
\* under its keccak-256 hash, exactly when it has 32 bytes or more (a shorter
\* one is embedded in the encoding of its parent); the encoding of the root
\* is written whatever its length, and its hash is returned.
C33_StoreWritesOnCommit ==
    (/\ last.op = "commit" /\ last.res = "Ok"
     /\ last.seen \cap {"err", "commit"} = {}
     /\ last.pre.root_loc # NodeLocation_None)
    => /\ trie.db = last.pre.db \cup CommitWrites(last.pre)
       /\ last.h = KeccakHasher_hash(EncodingOf(last.pre, last.pre.root_loc))

\* C33 witness: a first commit of a trie with a node below the root that is
\* encoded in less than 32 bytes and one encoded in 32 bytes or more.
C33_Witness ==
    /\ last.op = "commit" /\ last.res = "Ok"
    /\ last.seen \cap {"err", "commit"} = {}
    /\ last.pre.root_loc # NodeLocation_None
    /\ \E loc \in NonRootNodes(last.pre) :
          Len(EncodingOf(last.pre, loc).data) < KeccakHasher_LENGTH
    /\ \E loc \in NonRootNodes(last.pre) :
          Len(EncodingOf(last.pre, loc).data) >= KeccakHasher_LENGTH
    /\ trie.db = CommitWrites(last.pre)

\* The value of the slot of a key in a storage: zero for a slot never written.
SlotValue(storage, key) ==
    IF key \in DOMAIN storage THEN U256_from_word(storage[key]) ELSE 0

\* The calls of the Ext an SSTORE of the word val to the slot of the word
\* slot makes, by the claim, on a storage where the slot holds current.
SstoreCalls(slot, val, current, refund, address) ==
    << [fn |-> "storage_at", key |-> to_big_endian(slot)] >>
    \o (IF current # 0 /\ val = 0
        THEN << [fn |-> "add_sstore_refund", value |-> refund] >> ELSE << >>)
    \o << [fn |-> "set_storage", key |-> to_big_endian(slot), value |-> to_big_endian(val)],
          [fn |-> "al_insert_storage_key", address |-> address, key |-> to_big_endian(slot)] >>

\* C34: with eip1283 disabled, an SSTORE that returns has read the slot,
\* called add_sstore_refund(sstore_refund_gas) exactly when the slot held a
\* non-zero value and the new value is zero, then called set_storage with
\* the key and the 32 big-endian bytes of the value, and last
\* al_insert_storage_key with the address of the call and the key, in
\* that order and with no other call; the slot then holds the value and the
\* access list the pair.
C34_SstoreCallsInOrder ==
    (/\ stepped.instruction = "SSTORE"
     /\ ~schedule.eip1283
     /\ stepped.res \in {"Continue", "Success"})
    => /\ stepped.calls = SstoreCalls(stepped.top, stepped.next,
                                      SlotValue(stepped.storage, to_big_endian(stepped.top)),
                                      schedule.sstore_refund_gas,
                                      interpreter.params.address)
       /\ SlotValue(ext.storage, to_big_endian(stepped.top)) = stepped.next
       /\ <<interpreter.params.address, to_big_endian(stepped.top)>> \in ext.access_list

\* An SSTORE cleared a slot that held a value and the refund was added.
C34_Witness ==
    /\ stepped.instruction = "SSTORE"
    /\ ~schedule.eip1283
    /\ stepped.res \in {"Continue", "Success"}
    /\ SlotValue(stepped.storage, to_big_endian(stepped.top)) # 0
    /\ stepped.next = 0
    /\ Len(stepped.calls) = 4
    /\ ext.sstore_clears_refund = schedule.sstore_refund_gas
    /\ schedule.sstore_refund_gas > 0

\* The gas left of current_gas once needed is deducted: nothing when needed
\* is more.
RemainingAfter(current_gas, needed) ==
    IF current_gas >= needed THEN current_gas - needed ELSE 0

Plain(hex) ==
    IF hex # <<>> /\ hex[Len(hex)] = 16 THEN SubSeq(hex, 1, Len(hex) - 1) ELSE hex

\* The nibbles of a sequence two per byte, the first of an odd number of
\* them left out.
Packed(nibbles) ==
    LET lo == Len(nibbles) % 2
    IN [i \in 1..(Len(nibbles) \div 2) |-> 16 * nibbles[lo + 2 * i - 1] + nibbles[lo + 2 * i]]

\* C36: the first byte of hex_to_compact(hex) has bit 0x20 exactly when hex
\* ends with the terminator and bit 0x10 exactly when the nibbles before the
\* terminator are odd in number; its low half is then the first nibble, and
\* the bytes after it are the other nibbles two per byte; the empty
\* sequence gives 0x00, the lone terminator 0x20, and two different
\* sequences give different outputs.
C36_CompactEncoding ==
    LET hex == compact.hex
        out == compact.out
        nibbles == Plain(hex)
    IN compact.called =>
       /\ Len(out) >= 1
       /\ ((out[1] \div 32) % 2 = 1) <=> (hex # <<>> /\ hex[Len(hex)] = 16)
       /\ ((out[1] \div 16) % 2 = 1) <=> (Len(nibbles) % 2 = 1)
       /\ Len(nibbles) % 2 = 1 => out[1] % 16 = nibbles[1]
       /\ SubSeq(out, 2, Len(out)) = Packed(nibbles)
       /\ hex = <<>> => out = <<0>>
       /\ hex = <<16>> => out = <<32>>
       /\ hex # compact.other => out # compact.other_out

\* Two sequences of the same nibbles and of odd length, one of them with the
\* terminator, were encoded.
C36_Witness ==
    /\ compact.called
    /\ compact.hex = <<15, 1, 15, 16>>
    /\ compact.other = <<15, 1, 15>>
    /\ compact.out = <<63, 31>>
    /\ compact.other_out = <<31, 31>>

\* The ids of the nodes in the buckets of a table
BucketNodes(d) ==
    UNION { { d.buckets[dist][i].node.id : i \in 1..Len(d.buckets[dist]) } :
                dist \in DOMAIN d.buckets }

\* C37: no bucket of the discovery table holds more than BUCKET_SIZE entries,
\* whatever Pongs of distinct nodes at the same distance were received.
C37_BucketBounded ==
    \A dist \in DOMAIN discovery.buckets : Len(discovery.buckets[dist]) <= BUCKET_SIZE

\* C38: a node comes into a bucket only by a Pong of it that echoes the hash
\* of its pending Ping, and a Pong of a node with no pending Ping, or with
\* another hash, leaves the buckets and the pending Pings as they were.
C38_PlacedByEchoedPong ==
    /\ \A n \in BucketNodes(discovery) \ BucketNodes(disc_last.pre) :
           /\ disc_last.op = "on_pong"
           /\ disc_last.node = n
           /\ disc_last.echoed
           /\ disc_last.pre.pinging_nodes[n].some
    /\ (disc_last.op = "on_pong" /\ ~disc_last.echoed)
       => /\ discovery.buckets = disc_last.pre.buckets
          /\ discovery.pinging_nodes = disc_last.pre.pinging_nodes

\* The Pong of a node echoed the hash of its pending Ping and the node came
\* into its bucket, where another node was.
C38_Witness ==
    /\ disc_last.op = "on_pong"
    /\ disc_last.echoed
    /\ disc_last.pre.pinging_nodes[disc_last.node].some
    /\ BucketNodes(disc_last.pre) # {}
    /\ disc_last.node \in BucketNodes(discovery) \ BucketNodes(disc_last.pre)

\* The entry of a node in the buckets of a table; the node is in a bucket.
EntryOf(d, n) ==
    LET bucket == d.buckets[distance(d.id_hash, keccak_id(n))]
    IN bucket[bucket_position(bucket, n)]

\* C39: when a round expires the FindNode request of a node that sent an
\* accepted Neighbours packet within FIND_NODE_TIMEOUT, and no Ping of that
\* node expires with it, the node stays in its bucket with the fail_count
\* and the backoff it had.
C39_AnsweredFindIsNoFailure ==
    (disc_last.op = "round" /\ disc_last.res = "Ok")
    => \A n \in disc_last.replied \cap BucketNodes(disc_last.pre) :
          LET pre == disc_last.pre
              request == pre.finding_nodes[n]
              pinged == pre.pinging_nodes[n]
          IN (/\ request.some
              /\ request.response_count > 0
              /\ disc_last.at - request.sent_at > FIND_NODE_TIMEOUT
              /\ ~(pinged.some /\ disc_last.at - pinged.send_at > PING_TIMEOUT))
             => /\ n \in BucketNodes(discovery)
                /\ EntryOf(discovery, n).fail_count = EntryOf(pre, n).fail_count
                /\ EntryOf(discovery, n).backoff_until = EntryOf(pre, n).backoff_until

====
